---- MODULE Spec2Model ----
(***************************************************************************)
(* camas: a RESP3 codec (src/protocol) and the client's response shaping   *)
(* (src/commands/set.rs, src/data_type.rs, src/client.rs).                 *)
(*                                                                         *)
(* Text is a sequence of characters, each a one-character string; a Rust   *)
(* &str is indexed by character in nom's take() and measured in bytes by   *)
(* String::len(), so a character carries its UTF-8 width (Utf8Len).        *)
(* Integers wider than the integers of TLC (i64, u32, usize,               *)
(* BigInt) are kept as signed decimals: a sign and a digit sequence        *)
(* without leading zeros; range checks compare digit sequences.            *)
(***************************************************************************)
EXTENDS Integers, Sequences, FiniteSets, TLC

VARIABLES pc, value, tail, frame, wire, result, request, sent, shaped,
          builder, op, other, io

vars ==
    <<pc, value, tail, frame, wire, result, request, sent, shaped, builder, op,
      other, io>>

(***************************************************************************)
(* Bounds of the model.                                                    *)
(***************************************************************************)
MaxDepth == 4
MaxBody == 3
MaxCount == 2
MaxPayload == 3
\* Calls of Client::execute on one connection
MaxCalls == 2
\* Items of a DataType::List
MaxItems == 2

(***************************************************************************)
(* Characters and text.                                                    *)
(***************************************************************************)
CR == "\r"
LF == "\n"
CRLF == <<CR, LF>>

\* A character outside ASCII: U+00E9, two bytes in UTF-8.
WideChar == "U+00E9"

Utf8Len(c) == IF c = WideChar THEN 2 ELSE 1

DigitChars == <<"0", "1", "2", "3", "4", "5", "6", "7", "8", "9">>

Digit == {DigitChars[i] : i \in 1..10}

DigitVal(c) == (CHOOSE i \in 1..10 : DigitChars[i] = c) - 1

\* character::is_digit(a as u8)
is_digit(c) == c \in Digit

StartsWith(s, p) == Len(s) >= Len(p) /\ SubSeq(s, 1, Len(p)) = p

Drop(s, n) == SubSeq(s, n + 1, Len(s))

Take(s, n) == SubSeq(s, 1, n)

\* String::len(): the length in bytes
RECURSIVE ByteLen(_)
ByteLen(s) == IF s = <<>> THEN 0 ELSE Utf8Len(Head(s)) + ByteLen(Tail(s))

\* Display of an unsigned machine integer (usize)
RECURSIVE DecimalOf(_)
DecimalOf(n) ==
    IF n < 10 THEN <<DigitChars[n + 1]>>
    ELSE DecimalOf(n \div 10) \o <<DigitChars[(n % 10) + 1]>>

RECURSIVE StripZeros(_)
StripZeros(ds) ==
    IF Len(ds) > 1 /\ Head(ds) = "0" THEN StripZeros(Tail(ds)) ELSE ds

RECURSIVE StripTrailingZeros(_)
StripTrailingZeros(ds) ==
    IF ds # <<>> /\ ds[Len(ds)] = "0"
    THEN StripTrailingZeros(SubSeq(ds, 1, Len(ds) - 1))
    ELSE ds

AllDigits(s) == \A i \in 1..Len(s) : s[i] \in Digit

\* Lexicographic order on digit sequences of equal length
RECURSIVE LexLeq(_, _)
LexLeq(a, b) ==
    IF a = <<>> THEN TRUE
    ELSE IF Head(a) # Head(b) THEN DigitVal(Head(a)) < DigitVal(Head(b))
    ELSE LexLeq(Tail(a), Tail(b))

\* magnitude a <= magnitude b, both without leading zeros
MagLeq(a, b) == Len(a) < Len(b) \/ (Len(a) = Len(b) /\ LexLeq(a, b))

\* The value of a digit sequence, saturated at cap + 1
RECURSIVE NatCapped(_, _, _)
NatCapped(ds, acc, cap) ==
    IF ds = <<>> THEN acc
    ELSE LET nxt == acc * 10 + DigitVal(Head(ds))
         IN  NatCapped(Tail(ds), IF nxt > cap THEN cap + 1 ELSE nxt, cap)

(***************************************************************************)
(* Integer limits, as digit sequences.                                     *)
(***************************************************************************)
\* u32::MAX = 4294967295
U32Max == <<"4", "2", "9", "4", "9", "6", "7", "2", "9", "5">>

\* usize::MAX on a 64-bit target = 18446744073709551615
UsizeMax ==
    <<"1", "8", "4", "4", "6", "7", "4", "4", "0", "7",
      "3", "7", "0", "9", "5", "5", "1", "6", "1", "5">>

\* i64::MAX = 9223372036854775807
I64Max ==
    <<"9", "2", "2", "3", "3", "7", "2", "0", "3", "6",
      "8", "5", "4", "7", "7", "5", "8", "0", "7">>

\* -i64::MIN = 9223372036854775808
I64MinMag ==
    <<"9", "2", "2", "3", "3", "7", "2", "0", "3", "6",
      "8", "5", "4", "7", "7", "5", "8", "0", "8">>

(***************************************************************************)
(* ProtocolDataType (src/protocol/mod.rs).                                 *)
(***************************************************************************)
\* A signed decimal: i64 and BigInt payloads
Num(neg, mag) == [neg |-> neg, mag |-> mag]

Null == [t |-> "Null"]
Boolean(b) == [t |-> "Boolean", b |-> b]
Integer(n) == [t |-> "Integer", n |-> n]
BigNumber(n) == [t |-> "BigNumber", n |-> n]
Double(d) == [t |-> "Double", d |-> d]
BulkError(s) == [t |-> "BulkError", s |-> s]
BulkString(s) == [t |-> "BulkString", s |-> s]
SimpleError(s) == [t |-> "SimpleError", s |-> s]
SimpleString(s) == [t |-> "SimpleString", s |-> s]
Array(a) == [t |-> "Array", a |-> a]

\* f64 values: NaN, the infinities, and finite decimals (sign, integer
\* digits without leading zeros, fraction digits without trailing zeros)
NaN == [k |-> "nan"]
Inf(neg) == [k |-> "inf", neg |-> neg]
Fin(neg, ip, fp) == [k |-> "num", neg |-> neg, ip |-> ip, fp |-> fp]

is_nan(d) == d.k = "nan"

\* PartialEq comparing arrays over their common prefix only
RECURSIVE eq_common_prefix(_, _)
eq_common_prefix(lhs, rhs) ==
    IF lhs.t # rhs.t THEN FALSE
    ELSE CASE lhs.t = "Null" -> TRUE
           [] lhs.t = "Double" -> is_nan(lhs.d) = is_nan(rhs.d)
           [] lhs.t = "Boolean" -> lhs.b = rhs.b
           [] lhs.t \in {"Integer", "BigNumber"} -> lhs.n = rhs.n
           [] lhs.t \in {"BulkError", "BulkString", "SimpleError", "SimpleString"} ->
                lhs.s = rhs.s
           [] lhs.t = "Array" ->
                \A i \in 1..Len(lhs.a) :
                    i <= Len(rhs.a) => eq_common_prefix(lhs.a[i], rhs.a[i])

\* impl PartialEq for ProtocolDataType
RECURSIVE eq(_, _)
eq(lhs, rhs) ==
    IF lhs.t # rhs.t THEN FALSE
    ELSE CASE lhs.t = "Null" -> TRUE
           [] lhs.t = "Double" ->
                IF is_nan(lhs.d) = is_nan(rhs.d) THEN TRUE
                ELSE FALSE   \* partial_cmp with exactly one NaN is None
           [] lhs.t = "Boolean" -> lhs.b = rhs.b
           [] lhs.t \in {"Integer", "BigNumber"} -> lhs.n = rhs.n
           [] lhs.t \in {"BulkError", "BulkString", "SimpleError", "SimpleString"} ->
                lhs.s = rhs.s
           [] lhs.t = "Array" ->
                /\ Len(lhs.a) = Len(rhs.a)
                /\ \A i \in 1..Len(lhs.a) : eq(lhs.a[i], rhs.a[i])

\* Display for i64 and BigInt
FmtNum(n) == (IF n.neg THEN <<"-">> ELSE <<>>) \o n.mag

\* A Display for f64 that spells the infinities out
FmtF64_infinity_spelled_out(d) ==
    CASE d.k = "nan" -> <<"N", "a", "N">>
      [] d.k = "inf" ->
            (IF d.neg THEN <<"-">> ELSE <<>>)
            \o <<"I", "n", "f", "i", "n", "i", "t", "y">>
      [] d.k = "num" ->
            (IF d.neg THEN <<"-">> ELSE <<>>) \o d.ip
            \o (IF d.fp = <<>> THEN <<>> ELSE <<".">> \o d.fp)

\* Display for f64
FmtF64(d) ==
    CASE d.k = "nan" -> <<"N", "a", "N">>
      [] d.k = "inf" -> (IF d.neg THEN <<"-">> ELSE <<>>) \o <<"i", "n", "f">>
      [] d.k = "num" ->
            (IF d.neg THEN <<"-">> ELSE <<>>) \o d.ip
            \o (IF d.fp = <<>> THEN <<>> ELSE <<".">> \o d.fp)

\* Strings joined with a CRLF between them
RECURSIVE concat_crlf_separated(_)
concat_crlf_separated(ss) ==
    IF ss = <<>> THEN <<>>
    ELSE IF Len(ss) = 1 THEN Head(ss)
    ELSE Head(ss) \o CRLF \o concat_crlf_separated(Tail(ss))

\* .collect::<String>()
RECURSIVE Concat(_)
Concat(ss) == IF ss = <<>> THEN <<>> ELSE Head(ss) \o Concat(Tail(ss))

\* ProtocolDataType::serialize
RECURSIVE serialize(_)
serialize(v) ==
    CASE v.t = "Array" ->
            IF v.a = <<>> THEN <<"*", "0">> \o CRLF
            ELSE <<"*">> \o DecimalOf(Len(v.a)) \o CRLF
                 \o Concat([i \in 1..Len(v.a) |-> serialize(v.a[i])])
      [] v.t = "BulkString" ->
            IF v.s = <<>> THEN <<"$", "0">> \o CRLF
            ELSE <<"$">> \o DecimalOf(ByteLen(v.s)) \o CRLF \o v.s \o CRLF
      [] v.t = "Integer" -> <<":">> \o FmtNum(v.n) \o CRLF
      [] v.t = "SimpleString" -> <<"+">> \o v.s \o CRLF
      [] v.t = "SimpleError" -> <<"-">> \o v.s \o CRLF
      [] v.t = "Null" -> <<"_">> \o CRLF
      [] v.t = "Boolean" -> <<"#", IF v.b THEN "t" ELSE "f">> \o CRLF
      [] v.t = "Double" ->
            IF is_nan(v.d) THEN <<",", "n", "a", "n">> \o CRLF
            ELSE <<",">> \o FmtF64(v.d) \o CRLF
      [] v.t = "BigNumber" -> <<"(">> \o FmtNum(v.n) \o CRLF
      [] v.t = "BulkError" ->
            <<"!">> \o DecimalOf(ByteLen(v.s)) \o CRLF \o v.s \o CRLF

(***************************************************************************)
(* Number parsing of the standard library and num-bigint.                  *)
(***************************************************************************)
Parsed(n) == [ok |-> TRUE, n |-> n]
Invalid == [ok |-> FALSE]

\* u32::from_str / usize::from_str on a run of digits: the value, saturated
\* at cap + 1 (the callers only compare it with lengths up to cap)
FromStrUnsigned(ds, max, cap) ==
    IF ds = <<>> \/ ~AllDigits(ds) THEN Invalid
    ELSE IF ~MagLeq(StripZeros(ds), max) THEN Invalid
    ELSE Parsed(NatCapped(ds, 0, cap))

HasSign(s) == s # <<>> /\ Head(s) \in {"+", "-"}

\* An integer parser that accepts a leading minus sign only
ParseI64_minus_only(s) ==
    LET neg == s # <<>> /\ Head(s) = "-"
        ds == IF neg THEN Tail(s) ELSE s
        mag == StripZeros(ds)
    IN  IF ds = <<>> \/ ~AllDigits(ds) THEN Invalid
        ELSE IF ~MagLeq(mag, IF neg THEN I64MinMag ELSE I64Max) THEN Invalid
        ELSE Parsed(Num(neg /\ mag # <<"0">>, mag))

\* i64::from_str
ParseI64(s) ==
    LET neg == s # <<>> /\ Head(s) = "-"
        ds == IF HasSign(s) THEN Tail(s) ELSE s
        mag == StripZeros(ds)
    IN  IF ds = <<>> \/ ~AllDigits(ds) THEN Invalid
        ELSE IF ~MagLeq(mag, IF neg THEN I64MinMag ELSE I64Max) THEN Invalid
        ELSE Parsed(Num(neg /\ mag # <<"0">>, mag))

RECURSIVE WithoutUnderscores(_)
WithoutUnderscores(s) ==
    IF s = <<>> THEN <<>>
    ELSE IF Head(s) = "_" THEN WithoutUnderscores(Tail(s))
    ELSE <<Head(s)>> \o WithoutUnderscores(Tail(s))

\* BigInt::from_str (num-bigint): one sign, then digits, which may be
\* separated by underscores
ParseBigInt(s) ==
    LET neg == s # <<>> /\ Head(s) = "-"
        s1 == IF neg /\ ~(Len(s) > 1 /\ s[2] = "+") THEN Tail(s) ELSE s
        s2 == IF s1 # <<>> /\ Head(s1) = "+" /\ ~(Len(s1) > 1 /\ s1[2] = "+")
              THEN Tail(s1) ELSE s1
        ds == WithoutUnderscores(s2)
        mag == StripZeros(ds)
    IN  IF s2 = <<>> \/ Head(s2) = "_" \/ ~AllDigits(ds) THEN Invalid
        ELSE Parsed(Num(neg /\ mag # <<"0">>, mag))

DigitRun(s) ==
    IF \E i \in 1..Len(s) : ~is_digit(s[i])
    THEN (CHOOSE i \in 1..Len(s) :
            ~is_digit(s[i]) /\ \A j \in 1..(i - 1) : is_digit(s[j])) - 1
    ELSE Len(s)

\* f64::from_str, for tokens in decimal notation without an exponent
ParseF64(s) ==
    LET neg == s # <<>> /\ Head(s) = "-"
        body == IF HasSign(s) THEN Tail(s) ELSE s
        ni == DigitRun(body)
        afterInt == Drop(body, ni)
        hasDot == afterInt # <<>> /\ Head(afterInt) = "."
        fracAll == IF hasDot THEN Tail(afterInt) ELSE <<>>
        nf == DigitRun(fracAll)
        leftover == IF hasDot THEN Drop(fracAll, nf) ELSE afterInt
        ip == IF ni = 0 THEN <<"0">> ELSE StripZeros(Take(body, ni))
        fp == StripTrailingZeros(Take(fracAll, nf))
    IN  IF body \in {<<"n", "a", "n">>, <<"N", "a", "N">>} THEN Parsed(NaN)
        ELSE IF body \in {<<"i", "n", "f">>,
                          <<"i", "n", "f", "i", "n", "i", "t", "y">>}
             THEN Parsed(Inf(neg))
        ELSE IF ni + nf = 0 \/ leftover # <<>> THEN Invalid
        ELSE Parsed(Fin(neg, ip, fp))

(***************************************************************************)
(* The nom parsers (src/protocol/parser.rs).  A parser returns Ok with the *)
(* value and the unconsumed input, a recoverable Error (nom's Err::Error,  *)
(* on which alt tries the next alternative), or Panic when an unwrap()     *)
(* inside a map closure aborts the thread.                                 *)
(***************************************************************************)
Ok(v, rest) == [st |-> "Ok", v |-> v, rest |-> rest]
Error == [st |-> "Err"]
Panic == [st |-> "Panic"]

\* alt of two parsers: the second is tried only on a recoverable error
Alt(first, second) == IF first.st = "Err" THEN second ELSE first

\* take_until("\r\n"): the index of the first CRLF, 0 when there is none
FindCRLF(s) ==
    IF \E i \in 1..(Len(s) - 1) : s[i] = CR /\ s[i + 1] = LF
    THEN CHOOSE i \in 1..(Len(s) - 1) :
            /\ s[i] = CR /\ s[i + 1] = LF
            /\ \A j \in 1..(i - 1) : ~(s[j] = CR /\ s[j + 1] = LF)
    ELSE 0

\* delimited(char(marker), take_until("\r\n"), crlf)
Line(marker, input) ==
    IF input = <<>> \/ Head(input) # marker THEN [ok |-> FALSE]
    ELSE LET i == FindCRLF(Tail(input))
         IN  IF i = 0 THEN [ok |-> FALSE]
             ELSE [ok |-> TRUE,
                   body |-> Take(Tail(input), i - 1),
                   rest |-> Drop(Tail(input), i + 1)]

\* map(tuple((tag(t), crlf)), |_| v)
Literal(t, v, input) ==
    IF StartsWith(input, t \o CRLF) THEN Ok(v, Drop(input, Len(t) + 2))
    ELSE Error

\* delimited(crlf, take(count), crlf): take counts characters of the &str
Counted(count, input) ==
    IF ~StartsWith(input, CRLF) THEN [ok |-> FALSE]
    ELSE LET r == Drop(input, 2)
         IN  IF count > Len(r) THEN [ok |-> FALSE]
             ELSE IF ~StartsWith(Drop(r, count), CRLF) THEN [ok |-> FALSE]
             ELSE [ok |-> TRUE, body |-> Take(r, count),
                   rest |-> Drop(r, count + 2)]

bulk_string_with_content(input) ==
    IF input = <<>> \/ Head(input) # "$" THEN Error
    ELSE LET n == DigitRun(Tail(input))
             count == FromStrUnsigned(Take(Tail(input), n), U32Max, Len(input))
         IN  IF ~count.ok THEN Panic
             ELSE LET c == Counted(count.n, Drop(Tail(input), n))
                  IN  IF c.ok THEN Ok(BulkString(c.body), c.rest) ELSE Error

bulk_string_nil(input) == Literal(<<"$", "-", "1">>, Null, input)

\* A bulk string parser without the zero-length alternative
bulk_string_empty_absent(input) == Error

bulk_string_empty(input) == Literal(<<"$", "0">>, BulkString(<<>>), input)

bulk_string(input) ==
    Alt(bulk_string_nil(input),
        Alt(bulk_string_empty(input), bulk_string_with_content(input)))

simple_string(input) ==
    LET l == Line("+", input)
    IN  IF l.ok THEN Ok(SimpleString(l.body), l.rest) ELSE Error

simple_error(input) ==
    LET l == Line("-", input)
    IN  IF l.ok THEN Ok(SimpleError(l.body), l.rest) ELSE Error

integer(input) ==
    LET l == Line(":", input)
    IN  IF ~l.ok THEN Error
        ELSE LET p == ParseI64(l.body)
             IN  IF p.ok THEN Ok(Integer(p.n), l.rest) ELSE Panic

boolean_true(input) == Literal(<<"#", "t">>, Boolean(TRUE), input)

boolean_false(input) == Literal(<<"#", "f">>, Boolean(FALSE), input)

boolean(input) == Alt(boolean_true(input), boolean_false(input))

double_infinity(input) == Literal(<<",", "i", "n", "f">>, Double(Inf(FALSE)), input)

double_negative_infinity(input) ==
    Literal(<<",", "-", "i", "n", "f">>, Double(Inf(TRUE)), input)

double_not_a_number(input) == Literal(<<",", "n", "a", "n">>, Double(NaN), input)

double_number(input) ==
    LET l == Line(",", input)
    IN  IF ~l.ok THEN Error
        ELSE LET p == ParseF64(l.body)
             IN  IF p.ok THEN Ok(Double(p.n), l.rest) ELSE Panic

double(input) ==
    Alt(double_infinity(input),
        Alt(double_negative_infinity(input),
            Alt(double_not_a_number(input), double_number(input))))

\* null with the marker not checked: any one character, then CRLF
null_any_marker(input) ==
    IF Len(input) >= 3 /\ SubSeq(input, 2, 3) = CRLF THEN Ok(Null, Drop(input, 3))
    ELSE Error

null(input) == Literal(<<"_">>, Null, input)

big_number(input) ==
    LET l == Line("(", input)
    IN  IF ~l.ok THEN Error
        ELSE LET p == ParseBigInt(l.body)
             IN  IF p.ok THEN Ok(BigNumber(p.n), l.rest) ELSE Panic

bulk_error_empty(input) == Literal(<<"!", "0">>, BulkError(<<>>), input)

bulk_error_with_content(input) ==
    IF input = <<>> \/ Head(input) # "!" THEN Error
    ELSE LET n == DigitRun(Tail(input))
             count == FromStrUnsigned(Take(Tail(input), n), U32Max, Len(input))
         IN  IF ~count.ok THEN Panic
             ELSE LET c == Counted(count.n, Drop(Tail(input), n))
                  IN  IF c.ok THEN Ok(BulkError(c.body), c.rest) ELSE Error

bulk_error(input) == Alt(bulk_error_empty(input), bulk_error_with_content(input))

RECURSIVE data_type(_)

\* many_m_n(0, count, data_type): stops at the first element that fails
RECURSIVE many_m_n_no_minimum(_, _, _)
many_m_n_no_minimum(count, input, elements) ==
    IF count = 0 THEN Ok(elements, input)
    ELSE LET r == data_type(input)
         IN  IF r.st = "Panic" THEN r
             ELSE IF r.st = "Err" THEN Ok(elements, input)
             ELSE many_m_n_no_minimum(count - 1, r.rest, Append(elements, r.v))

\* many_m_n(count, count, data_type): every one of the count elements must
\* parse, and must consume input
RECURSIVE many_m_n(_, _, _)
many_m_n(count, input, elements) ==
    IF count = 0 THEN Ok(elements, input)
    ELSE LET r == data_type(input)
         IN  IF r.st # "Ok" THEN r
             ELSE IF Len(r.rest) = Len(input) THEN Error
             ELSE many_m_n(count - 1, r.rest, Append(elements, r.v))

array_empty(input) == Literal(<<"*", "0">>, Array(<<>>), input)

array_with_elements(input) ==
    IF input = <<>> \/ Head(input) # "*" THEN Error
    ELSE LET n == DigitRun(Tail(input))
             rest == Drop(Tail(input), n)
         IN  IF ~StartsWith(rest, CRLF) THEN Error
             ELSE LET count == FromStrUnsigned(Take(Tail(input), n), UsizeMax,
                                               Len(input))
                  IN  IF ~count.ok THEN Panic
                      ELSE LET m == many_m_n(count.n, Drop(rest, 2), <<>>)
                           IN  IF m.st = "Ok" THEN Ok(Array(m.v), m.rest) ELSE m

array(input) == Alt(array_empty(input), array_with_elements(input))

data_type(input) ==
    Alt(simple_string(input),
    Alt(simple_error(input),
    Alt(bulk_string(input),
    Alt(bulk_error(input),
    Alt(big_number(input),
    Alt(integer(input),
    Alt(boolean(input),
    Alt(double(input),
    Alt(array(input), null(input))))))))))

\* impl FromStr for ProtocolDataType: the unconsumed input is dropped
from_str(input) ==
    LET r == data_type(input)
    IN  CASE r.st = "Ok" -> [st |-> "Ok", v |-> r.v]
          [] r.st = "Err" ->
                [st |-> "Err",
                 e |-> <<"P", "a", "r", "s", "i", "n", "g", " ",
                         "e", "r", "r", "o", "r">>]
          [] r.st = "Panic" -> Panic

(***************************************************************************)
(* Values a caller constructs, and bytes a peer sends.                     *)
(***************************************************************************)
I64(neg, mag) == Integer(Num(neg, mag))

\* 2^32, beyond the u32 range
TwoPow32 == <<"4", "2", "9", "4", "9", "6", "7", "2", "9", "6">>

\* 2^64, beyond the 64-bit range
TwoPow64 ==
    <<"1", "8", "4", "4", "6", "7", "4", "4", "0", "7",
      "3", "7", "0", "9", "5", "5", "1", "6", "1", "6">>

Seeds ==
    { Null, Boolean(TRUE), Boolean(FALSE),
      I64(FALSE, <<"0">>), I64(FALSE, <<"4", "2">>), I64(TRUE, <<"4", "2">>),
      I64(TRUE, I64MinMag),
      BigNumber(Num(FALSE, TwoPow64)), BigNumber(Num(TRUE, TwoPow64)),
      Double(NaN), Double(Inf(FALSE)), Double(Inf(TRUE)),
      Double(Fin(FALSE, <<"3">>, <<>>)), Double(Fin(TRUE, <<"3">>, <<"5">>)),
      SimpleString(<<>>), SimpleString(<<"O", "K">>), SimpleError(<<"E">>),
      BulkString(<<>>), BulkString(<<"a">>), BulkString(<<"a", CR, LF, "b">>),
      BulkString(<<WideChar>>),
      BulkError(<<>>), BulkError(<<"e">>),
      Array(<<>>),
      Array(<<BulkString(<<"F", "o", "o">>), I64(FALSE, <<"4", "2">>),
              Boolean(TRUE)>>) }

\* Elements put beside a nested array
Fillers == { BulkError(<<>>), I64(FALSE, <<"7">>) }

\* Bytes that follow a message on the stream
Tails == { <<>>, <<":", "1", CR, LF>> }

RECURSIVE Depth(_)
Depth(v) ==
    IF v.t # "Array" THEN 0
    ELSE 1 + (IF v.a = <<>> THEN 0
              ELSE LET ds == {Depth(v.a[i]) : i \in 1..Len(v.a)}
                   IN  CHOOSE d \in ds : \A e \in ds : e <= d)

\* All texts over an alphabet, up to a length
RECURSIVE Texts(_, _)
Texts(alphabet, n) ==
    IF n = 0 THEN {<<>>}
    ELSE LET shorter == Texts(alphabet, n - 1)
         IN  shorter \cup {Append(s, c) : s \in shorter, c \in alphabet}

PayloadAlphabet == {"a", CR, LF, WideChar}

Payloads == Texts(PayloadAlphabet, MaxPayload)

Trailers == { <<>>, CRLF, <<CR>>, <<"a">>, <<CR, LF, "a">> }

NumAlphabet == {"0", "1", "2", "+", "-", ".", "x"}

U32Over == <<"4", "2", "9", "4", "9", "6", "7", "2", "9", "6">>

I64Over == I64MinMag

NumBodies ==
    Texts(NumAlphabet, MaxBody)
    \cup { I64Max, I64Over, <<"-">> \o I64MinMag, <<"a", "b", "c">>,
           <<"+">> \o I64Max, <<"-">> \o TwoPow64, <<"+">> \o TwoPow64,
           <<"i", "n", "f">>, <<"-", "i", "n", "f">>, <<"n", "a", "n">>,
           <<"1", ".", "2", ".", "3">>, <<"1", "-", "2">> }

HeaderAlphabet == {"0", "5", "-", "x"}

HeaderTokens == Texts(HeaderAlphabet, MaxCount) \cup { <<"-", "1">>, U32Over, TwoPow64 }

HeaderAfter ==
    { <<>>, CRLF, <<CR, LF, "a", "b">>, <<CR, LF, "a", "b", CR, LF>>,
      <<CR, LF, "a", "b", "c", "d", "e", CR, LF>> }

\* Element encodings with the values they stand for (the fixtures of
\* parsing::parses_array and parsing::parses_nested_array, one per marker)
Entries ==
    << [w |-> <<":", "1", CR, LF>>, v |-> I64(FALSE, <<"1">>)],
       [w |-> <<"$", "3", CR, LF, "F", "o", "o", CR, LF>>,
        v |-> BulkString(<<"F", "o", "o">>)],
       [w |-> <<"+", "H", "i", CR, LF>>, v |-> SimpleString(<<"H", "i">>)],
       [w |-> <<"-", "W", CR, LF>>, v |-> SimpleError(<<"W">>)],
       [w |-> <<"_", CR, LF>>, v |-> Null],
       [w |-> <<"*", "0", CR, LF>>, v |-> Array(<<>>)],
       [w |-> <<"*", "2", CR, LF, ":", "1", CR, LF, "#", "t", CR, LF>>,
        v |-> Array(<<I64(FALSE, <<"1">>), Boolean(TRUE)>>)] >>

EntrySeqs == Texts(1..Len(Entries), MaxCount + 1)

EntryBytes(es) == Concat([i \in 1..Len(es) |-> Entries[es[i]].w])

OtherInputs ==
    { <<>>, <<"x">>, <<"x", CR, LF>>, CRLF, <<"%", "0", CR, LF>>,
      <<"1", CR, LF>>, <<"a", ":", "1", CR, LF>>, <<"~", "1", CR, LF>>,
      <<WideChar, CR, LF>>, <<" ", "+", "O", "K", CR, LF>> }

(***************************************************************************)
(* The codec: a caller constructs a value and serializes it, or a peer     *)
(* sends bytes; the bytes are then parsed through the entry point.         *)
(***************************************************************************)
NoResult == [st |-> "None"]

\* A connection on which nothing has been executed yet
NoIo ==
    [calls |-> 0, returned |-> 0, writes |-> 0, written |-> <<>>,
     reply |-> <<>>, pending |-> <<>>, stream |-> <<>>, closed |-> FALSE,
     broken |-> FALSE, response |-> <<>>, log |-> <<>>]

Init ==
    /\ pc = "idle"
    /\ value = Null
    /\ tail = <<>>
    /\ frame = [kind |-> "none"]
    /\ wire = <<>>
    /\ result = NoResult
    /\ request = [kind |-> "none"]
    /\ sent = <<>>
    /\ shaped = NoResult
    /\ builder = [options |-> [expiration_time |-> [some |-> FALSE],
                               set_mode |-> [some |-> FALSE],
                               get_previous_value |-> FALSE],
                  calls |-> <<>>]
    /\ op = "none"
    /\ other = Null
    /\ io = NoIo

Construct ==
    /\ pc = "idle"
    /\ \E v \in Seeds : value' = v
    /\ pc' = "built"
    /\ UNCHANGED <<tail, frame, wire, result, request, sent, shaped, builder,
                   op, other, io>>

\* Array(vec![value]), Array(vec![e, value]) or Array(vec![value, e])
Nest ==
    /\ pc = "built"
    /\ Depth(value) < MaxDepth
    /\ \E around \in {<<<<>>, <<>>>>}
                     \cup {<<<<e>>, <<>>>> : e \in Fillers}
                     \cup {<<<<>>, <<e>>>> : e \in Fillers} :
          value' = Array(around[1] \o <<value>> \o around[2])
    /\ UNCHANGED <<pc, tail, frame, wire, result, request, sent, shaped,
                   builder, op, other, io>>

\* serialize(), written to a stream on which other bytes may follow
Encode ==
    /\ pc = "built"
    /\ \E t \in Tails :
          /\ wire' = serialize(value) \o t
          /\ tail' = t
    /\ frame' = [kind |-> "value"]
    /\ pc' = "wire"
    /\ UNCHANGED <<value, result, request, sent, shaped, builder, op, other,
                   io>>

\* A bulk string or bulk error frame: marker, declared length, CRLF, bytes
ReceiveBulk ==
    /\ pc = "idle"
    /\ \E m \in {"$", "!"}, n \in 0..MaxPayload, p \in Payloads, t \in Trailers :
          /\ wire' = <<m>> \o DecimalOf(n) \o CRLF \o p \o t
          /\ frame' = [kind |-> "bulk", marker |-> m, n |-> n, rest |-> p \o t]
    /\ pc' = "wire"
    /\ UNCHANGED <<value, tail, result, request, sent, shaped, builder, op,
                   other, io>>

\* A length- or count-prefixed frame with an arbitrary header
ReceiveHeader ==
    /\ pc = "idle"
    /\ \E m \in {"$", "!", "*"}, h \in HeaderTokens, a \in HeaderAfter :
          /\ wire' = <<m>> \o h \o a
          /\ frame' = [kind |-> "header", marker |-> m, hdr |-> h, after |-> a]
    /\ pc' = "wire"
    /\ UNCHANGED <<value, tail, result, request, sent, shaped, builder, op,
                   other, io>>

\* An integer, big number or double frame with an arbitrary body
ReceiveNumber ==
    /\ pc = "idle"
    /\ \E m \in {":", "(", ","}, b \in NumBodies, t \in {<<>>, CRLF} :
          /\ wire' = <<m>> \o b \o t
          /\ frame' = [kind |-> "number", marker |-> m, body |-> b, term |-> t]
    /\ pc' = "wire"
    /\ UNCHANGED <<value, tail, result, request, sent, shaped, builder, op,
                   other, io>>

\* An array header declaring n elements, followed by element encodings
ReceiveArray ==
    /\ pc = "idle"
    /\ \E n \in 0..(MaxCount + 1), es \in EntrySeqs :
          /\ wire' = <<"*">> \o DecimalOf(n) \o CRLF \o EntryBytes(es)
          /\ frame' = [kind |-> "array", n |-> n, es |-> es]
    /\ pc' = "wire"
    /\ UNCHANGED <<value, tail, result, request, sent, shaped, builder, op,
                   other, io>>

ReceiveOther ==
    /\ pc = "idle"
    /\ \E input \in OtherInputs : wire' = input
    /\ frame' = [kind |-> "other"]
    /\ pc' = "wire"
    /\ UNCHANGED <<value, tail, result, request, sent, shaped, builder, op,
                   other, io>>

\* parser::data_type on the received bytes
Decode ==
    /\ pc = "wire"
    /\ result' = data_type(wire)
    /\ pc' = "parsed"
    /\ UNCHANGED <<value, tail, frame, wire, request, sent, shaped, builder,
                   op, other, io>>

Next ==
    \/ Construct
    \/ Nest
    \/ Encode
    \/ ReceiveBulk
    \/ ReceiveHeader
    \/ ReceiveNumber
    \/ ReceiveArray
    \/ ReceiveOther
    \/ Decode

Spec == Init /\ [][Next]_vars

(***************************************************************************)
(* Equality: two values are built and compared with ==.                    *)
(***************************************************************************)
\* Elements of the arrays that are compared
EqElements ==
    { Null, I64(FALSE, <<"4", "2">>), BulkString(<<>>), Double(NaN),
      Double(Fin(FALSE, <<"3">>, <<>>)), Double(Fin(TRUE, <<"3">>, <<>>)) }

EqValues ==
    Seeds
    \cup { Double(Fin(TRUE, <<"3">>, <<>>)), Double(Fin(FALSE, <<"0">>, <<>>)),
           Double(Fin(TRUE, <<"0">>, <<>>)) }
    \cup { Array(<<a>>) : a \in Seeds }
    \cup { Array(<<a, b>>) : a, b \in EqElements }
    \cup { Array(<<Array(<<a>>)>>) : a \in EqElements }

ConstructPair ==
    /\ pc = "idle"
    /\ \E lhs \in EqValues, rhs \in EqValues :
          /\ value' = lhs
          /\ other' = rhs
    /\ pc' = "pair"
    /\ UNCHANGED <<tail, frame, wire, result, request, sent, shaped, builder,
                   op, io>>

\* lhs == rhs
Compare ==
    /\ pc = "pair"
    /\ result' = [st |-> "Compared", equal |-> eq(value, other)]
    /\ pc' = "compared"
    /\ UNCHANGED <<value, tail, frame, wire, request, sent, shaped, builder,
                   op, other, io>>

NextEq ==
    \/ ConstructPair
    \/ Compare

SpecEq == Init /\ [][NextEq]_vars

(***************************************************************************)
(* DataType, the user-facing value (src/data_type.rs).                     *)
(***************************************************************************)
String(s) == [t |-> "String", s |-> s]
List(items) == [t |-> "List", items |-> items]

RECURSIVE Join(_, _)
Join(items, sep) ==
    IF items = <<>> THEN <<>>
    ELSE IF Len(items) = 1 THEN Head(items)
    ELSE Head(items) \o <<sep>> \o Join(Tail(items), sep)

\* impl Display for DataType
DataType_to_string(d) ==
    IF d.t = "String" THEN <<"\"">> \o d.s \o <<"\"">>
    ELSE <<"[">> \o Join(d.items, ",") \o <<"]">>

\* bool::to_string
BoolText(b) ==
    IF b THEN <<"t", "r", "u", "e">> ELSE <<"f", "a", "l", "s", "e">>

Converted(d) == [st |-> "Ok", v |-> d]

\* impl TryFrom<ProtocolDataType> for DataType: Ok, Err, or a panic when
\* the unwrap() on an array element's conversion fails
RECURSIVE try_from(_)
try_from(v) ==
    CASE v.t = "Double" -> Converted(String(FmtF64(v.d)))
      [] v.t = "Boolean" -> Converted(String(BoolText(v.b)))
      [] v.t \in {"Integer", "BigNumber"} -> Converted(String(FmtNum(v.n)))
      [] v.t \in {"BulkString", "SimpleString"} -> Converted(String(v.s))
      [] v.t = "Array" ->
            LET items == [i \in 1..Len(v.a) |-> try_from(v.a[i])]
            IN  IF \E i \in 1..Len(v.a) : items[i].st # "Ok" THEN Panic
                ELSE Converted(List([i \in 1..Len(v.a) |->
                                        DataType_to_string(items[i].v)]))
      [] OTHER -> [st |-> "Err", e |-> "sei la"]

(***************************************************************************)
(* The SET command (src/commands/set.rs, src/commands/mod.rs).             *)
(***************************************************************************)
None == [some |-> FALSE]
Some(x) == [some |-> TRUE, v |-> x]

SetModes == {None, Some("SetIfExists"), Some("SetIfNotExists")}

ExpirationTimes ==
    {None, Some([k |-> "KeepTTL"])}
    \cup { Some([k |-> kind, n |-> 10]) :
             kind \in {"Seconds", "Milliseconds", "TimestampSeconds",
                       "TimestampMilliseconds"} }

SetOptions ==
    [expiration_time : ExpirationTimes, set_mode : SetModes,
     get_previous_value : BOOLEAN]

\* SetArguments::new
SetArguments(key, val, options) == [key |-> key, value |-> val, options |-> options]

\* The expiry token and number of an ExpirationTime
ExpirationTime_tokens(e) ==
    LET timed(token) == <<BulkString(token), BulkString(DecimalOf(e.n))>>
    IN  CASE e.k = "Seconds" -> timed(<<"E", "X">>)
          [] e.k = "Milliseconds" -> timed(<<"P", "X">>)
          [] e.k = "TimestampSeconds" -> timed(<<"E", "X", "A", "T">>)
          [] e.k = "TimestampMilliseconds" -> timed(<<"P", "X", "A", "T">>)
          [] e.k = "KeepTTL" -> <<BulkString(<<"K", "E", "E", "P", "T", "T", "L">>)>>

\* to_protocol_arguments pushing GET before the conditional-mode token
SetArguments_to_protocol_arguments_get_first(args) ==
    LET mode == args.options.set_mode
        exp == args.options.expiration_time
    IN  <<BulkString(args.key), BulkString(args.value)>>
        \o (IF args.options.get_previous_value
            THEN <<BulkString(<<"G", "E", "T">>)>> ELSE <<>>)
        \o (IF ~mode.some THEN <<>>
            ELSE IF mode.v = "SetIfExists" THEN <<BulkString(<<"X", "X">>)>>
            ELSE <<BulkString(<<"N", "X">>)>>)
        \o (IF ~exp.some THEN <<>> ELSE ExpirationTime_tokens(exp.v))

\* impl CommandArguments for SetArguments
SetArguments_to_protocol_arguments(args) ==
    LET mode == args.options.set_mode
        exp == args.options.expiration_time
    IN  <<BulkString(args.key), BulkString(args.value)>>
        \o (IF ~mode.some THEN <<>>
            ELSE IF mode.v = "SetIfExists" THEN <<BulkString(<<"X", "X">>)>>
            ELSE <<BulkString(<<"N", "X">>)>>)
        \o (IF args.options.get_previous_value
            THEN <<BulkString(<<"G", "E", "T">>)>> ELSE <<>>)
        \o (IF ~exp.some THEN <<>> ELSE ExpirationTime_tokens(exp.v))

\* GetArguments::new, DelArguments::new, FlushDbArguments::new
GetArguments(key) == [key |-> key]
DelArguments(keys) == [keys |-> keys]
FlushDbArguments(async_flush) == [async_flush |-> async_flush]

\* GetArguments::to_protocol_arguments with the key as a simple string
GetArguments_to_protocol_arguments_simple_string(args) == <<SimpleString(args.key)>>

\* impl CommandArguments for GetArguments
GetArguments_to_protocol_arguments(args) == <<BulkString(args.key)>>

\* DelArguments::to_protocol_arguments dropping empty keys
DelArguments_to_protocol_arguments_skip_empty(args) ==
    LET NonEmpty(k) == k # <<>>
        kept == SelectSeq(args.keys, NonEmpty)
    IN  [i \in 1..Len(kept) |-> BulkString(kept[i])]

\* impl CommandArguments for DelArguments
DelArguments_to_protocol_arguments(args) ==
    [i \in 1..Len(args.keys) |-> BulkString(args.keys[i])]

\* impl CommandArguments for FlushDbArguments
FlushDbArguments_to_protocol_arguments(args) ==
    IF args.async_flush THEN <<BulkString(<<"A", "S", "Y", "N", "C">>)>>
    ELSE <<BulkString(<<"S", "Y", "N", "C">>)>>

\* enum Command
Command_Set(args) == [name |-> "Set", args |-> args]
Command_Get(args) == [name |-> "Get", args |-> args]
Command_Del(args) == [name |-> "Del", args |-> args]
Command_FlushDb(args) == [name |-> "FlushDb", args |-> args]

\* Command::command_name
command_name(command) ==
    CASE command.name = "Set" -> <<"S", "E", "T">>
      [] command.name = "Get" -> <<"G", "E", "T">>
      [] command.name = "Del" -> <<"D", "E", "L">>
      [] command.name = "FlushDb" -> <<"F", "L", "U", "S", "H", "D", "B">>

\* Command::argument_list
argument_list(command) ==
    CASE command.name = "Set" -> SetArguments_to_protocol_arguments(command.args)
      [] command.name = "Get" -> GetArguments_to_protocol_arguments(command.args)
      [] command.name = "Del" -> DelArguments_to_protocol_arguments(command.args)
      [] command.name = "FlushDb" ->
            FlushDbArguments_to_protocol_arguments(command.args)

\* Command::serialize without the command-name token
Command_serialize_arguments_only(command) ==
    serialize(Array(argument_list(command)))

\* Command::serialize
Command_serialize(command) ==
    serialize(Array(<<BulkString(command_name(command))>> \o argument_list(command)))

\* enum SetResponse
SetResponse_Ok == [k |-> "Ok"]
SetResponse_Aborted == [k |-> "Aborted"]
SetResponse_PreviousValue(v) == [k |-> "PreviousValue", v |-> v]

Returned(r) == [st |-> "Ok", r |-> r]

IsOK(response) == response.t = "SimpleString" /\ response.s = <<"O", "K">>

\* SetResponse::parse with the conditional mode examined before the
\* previous-value flag
SetResponse_parse_mode_first(arguments, response) ==
    IF arguments.options.set_mode.some /\ response.t = "Null"
    THEN Returned(SetResponse_Aborted)
    ELSE IF arguments.options.get_previous_value
    THEN IF response.t = "Null" THEN Returned(SetResponse_PreviousValue(None))
         ELSE LET c == try_from(response)
              IN  IF c.st = "Ok" THEN Returned(SetResponse_PreviousValue(Some(c.v)))
                  ELSE Panic
    ELSE IF IsOK(response) THEN Returned(SetResponse_Ok)
    ELSE Panic

\* SetResponse::parse accepting any simple string as the acknowledgement
SetResponse_parse_any_status(arguments, response) ==
    IF arguments.options.get_previous_value
    THEN IF response.t = "Null" THEN Returned(SetResponse_PreviousValue(None))
         ELSE LET c == try_from(response)
              IN  IF c.st = "Ok" THEN Returned(SetResponse_PreviousValue(Some(c.v)))
                  ELSE Panic
    ELSE IF arguments.options.set_mode.some /\ response.t = "Null"
    THEN Returned(SetResponse_Aborted)
    ELSE IF response.t = "SimpleString" THEN Returned(SetResponse_Ok)
    ELSE Panic

\* SetResponse::parse: a SetResponse, or a panic (the unwrap() of a failed
\* conversion, or unreachable!())
SetResponse_parse(arguments, response) ==
    IF arguments.options.get_previous_value
    THEN IF response.t = "Null" THEN Returned(SetResponse_PreviousValue(None))
         ELSE LET c == try_from(response)
              IN  IF c.st = "Ok" THEN Returned(SetResponse_PreviousValue(Some(c.v)))
                  ELSE Panic
    ELSE IF arguments.options.set_mode.some /\ response.t = "Null"
    THEN Returned(SetResponse_Aborted)
    ELSE IF IsOK(response) THEN Returned(SetResponse_Ok)
    ELSE Panic

(***************************************************************************)
(* Client::set (src/client.rs): the command is serialized and written, the *)
(* store's reply is read and parsed, a protocol-level error becomes Err,   *)
(* and any other reply is shaped by SetResponse::parse.                    *)
(***************************************************************************)
\* Replies of the store: every seed value, arrays of convertible and of
\* unconvertible elements, the null bulk string, and undecodable bytes
ReplyValues ==
    Seeds
    \cup { SimpleString(<<"Q", "U", "E", "U", "E", "D">>),
           BulkString(<<"O", "K">>), BulkString(<<"b", "a", "z">>),
           Array(<<Null>>), Array(<<BulkString(<<"a">>), SimpleError(<<"E">>)>>),
           Array(<<BulkString(<<"a">>), I64(FALSE, <<"1">>)>>),
           Array(<<Array(<<BulkString(<<"a">>)>>)>>),
           I64(FALSE, <<"1">>), I64(FALSE, U32Max), I64(FALSE, TwoPow32),
           SimpleError(<<"P", "a", "r", "s", "i", "n", "g", " ",
                         "e", "r", "r", "o", "r">>) }

Replies ==
    {serialize(v) : v \in ReplyValues}
    \cup { <<"$", "-", "1", CR, LF>>, <<":", "x", CR, LF>>, <<"?", CR, LF>>, <<>> }

\* Client::execute turning only a SimpleError into Err
execute_result_simple_error_only(response) ==
    LET r == from_str(response)
    IN  IF r.st # "Ok" THEN r
        ELSE IF r.v.t = "SimpleError" THEN [st |-> "Err", e |-> r.v.s]
        ELSE r

\* The match at the end of Client::execute
execute_result(response) ==
    LET r == from_str(response)
    IN  IF r.st # "Ok" THEN r
        ELSE IF r.v.t \in {"SimpleError", "BulkError"} THEN [st |-> "Err", e |-> r.v.s]
        ELSE r

\* The setters of SetOptionsBuilder (derive_builder, strip_option): each
\* stores one field and may be called in any order before build()
Called(setter) == \E i \in 1..Len(builder.calls) : builder.calls[i] = setter

BuilderExpirationTime ==
    /\ pc = "idle"
    /\ ~Called("expiration_time")
    /\ \E e \in ExpirationTimes \ {None} :
          builder' = [options |-> [builder.options EXCEPT !.expiration_time = e],
                      calls |-> Append(builder.calls, "expiration_time")]
    /\ UNCHANGED <<pc, value, tail, frame, wire, result, request, sent,
                   shaped, op, other, io>>

BuilderSetMode ==
    /\ pc = "idle"
    /\ ~Called("set_mode")
    /\ \E m \in SetModes \ {None} :
          builder' = [options |-> [builder.options EXCEPT !.set_mode = m],
                      calls |-> Append(builder.calls, "set_mode")]
    /\ UNCHANGED <<pc, value, tail, frame, wire, result, request, sent,
                   shaped, op, other, io>>

BuilderGetPreviousValue ==
    /\ pc = "idle"
    /\ ~Called("get_previous_value")
    /\ \E g \in BOOLEAN :
          builder' = [options |-> [builder.options EXCEPT !.get_previous_value = g],
                      calls |-> Append(builder.calls, "get_previous_value")]
    /\ UNCHANGED <<pc, value, tail, frame, wire, result, request, sent,
                   shaped, op, other, io>>

\* Values a caller stores: a word and the empty string
SetValues == {<<"b", "a", "r">>, <<>>}

\* Client::set up to write_all: arguments, command, serialized bytes
SetCall ==
    /\ pc = "idle"
    /\ builder.options \in SetOptions
    /\ \E val \in SetValues :
          request' = SetArguments(<<"f", "o", "o">>, val, builder.options)
    /\ sent' = Command_serialize(Command_Set(request'))
    /\ op' = "set"
    /\ pc' = "sent"
    /\ UNCHANGED <<value, tail, frame, wire, result, shaped, builder, other,
                   io>>

\* The store's reply has been read off the stream
StoreReply ==
    /\ pc = "sent"
    /\ \E reply \in Replies : wire' = reply
    /\ pc' = "received"
    /\ UNCHANGED <<value, tail, frame, result, request, sent, shaped, builder,
                   op, other, io>>

\* Client::execute: parse the reply, turn an error value into Err
ExecuteParse ==
    /\ pc = "received"
    /\ result' = execute_result(wire)
    /\ pc' = "executed"
    /\ UNCHANGED <<value, tail, frame, wire, request, sent, shaped, builder,
                   op, other, io>>

\* Client::set after execute: `?` propagates Err, otherwise SetResponse::parse
SetFinish ==
    /\ pc = "executed"
    /\ op = "set"
    /\ shaped' = IF result.st = "Ok" THEN SetResponse_parse(request, result.v)
                 ELSE result
    /\ pc' = "done"
    /\ UNCHANGED <<value, tail, frame, wire, result, request, sent, builder,
                   op, other, io>>

\* Client::get up to write_all (get, del and flushdb take no SetOptions, so
\* they are called with no builder in progress)
GetCall ==
    /\ pc = "idle"
    /\ builder.calls = <<>>
    /\ request' = GetArguments(<<"f", "o", "o">>)
    /\ sent' = Command_serialize(Command_Get(request'))
    /\ op' = "get"
    /\ pc' = "sent"
    /\ UNCHANGED <<value, tail, frame, wire, result, shaped, builder, other,
                   io>>

\* Key lists handed to Client::del
DelKeyLists ==
    { <<>>, <<<<"f", "o", "o">>>>,
      <<<<"f", "o", "o">>, <<>>, <<"f", "o", "o">>>>,
      <<<<"b">>, <<"a">>>> }

\* Client::del up to write_all
DelCall ==
    /\ pc = "idle"
    /\ builder.calls = <<>>
    /\ \E keys \in DelKeyLists : request' = DelArguments(keys)
    /\ sent' = Command_serialize(Command_Del(request'))
    /\ op' = "del"
    /\ pc' = "sent"
    /\ UNCHANGED <<value, tail, frame, wire, result, shaped, builder, other,
                   io>>

\* Client::flushdb up to write_all
FlushDbCall ==
    /\ pc = "idle"
    /\ builder.calls = <<>>
    /\ \E async_flush \in BOOLEAN : request' = FlushDbArguments(async_flush)
    /\ sent' = Command_serialize(Command_FlushDb(request'))
    /\ op' = "flushdb"
    /\ pc' = "sent"
    /\ UNCHANGED <<value, tail, frame, wire, result, shaped, builder, other,
                   io>>

\* Client::get after execute: None for Null, else Some(try_into()?)
GetFinish ==
    /\ pc = "executed"
    /\ op = "get"
    /\ shaped' = IF result.st # "Ok" THEN result
                 ELSE IF eq(result.v, Null) THEN Returned(None)
                 ELSE LET c == try_from(result.v)
                      IN  IF c.st = "Ok" THEN Returned(Some(c.v)) ELSE c
    /\ pc' = "done"
    /\ UNCHANGED <<value, tail, frame, wire, result, request, sent, builder,
                   op, other, io>>

\* n mod 2^32 as two 16-bit limbs, for a decimal magnitude of any length
RECURSIVE Limbs(_, _, _)
Limbs(ds, hi, lo) ==
    IF ds = <<>> THEN <<hi, lo>>
    ELSE LET l == lo * 10 + DigitVal(Head(ds))
         IN  Limbs(Tail(ds), (hi * 10 + l \div 65536) % 65536, l % 65536)

RECURSIVE LimbDigits(_, _)
LimbDigits(hi, lo) ==
    IF hi = 0 /\ lo < 10 THEN DecimalOf(lo)
    ELSE LET c == (hi % 10) * 65536 + lo
         IN  LimbDigits(hi \div 10, c \div 10) \o DecimalOf(c % 10)

\* `n as u32` for an i64 n: the low 32 bits of the two's complement
as_u32(n) ==
    LET l == Limbs(n.mag, 0, 0)
    IN  IF ~n.neg \/ l = <<0, 0>> THEN LimbDigits(l[1], l[2])
        ELSE LimbDigits((65535 - l[1] + (IF l[2] = 0 THEN 1 ELSE 0)) % 65536,
                        (65536 - l[2]) % 65536)

\* Client::del after execute: the Integer as u32, anything else unreachable!()
DelFinish ==
    /\ pc = "executed"
    /\ op = "del"
    /\ shaped' = IF result.st # "Ok" THEN result
                 ELSE IF result.v.t = "Integer" THEN Returned(as_u32(result.v.n))
                 ELSE Panic
    /\ pc' = "done"
    /\ UNCHANGED <<value, tail, frame, wire, result, request, sent, builder,
                   op, other, io>>

\* Client::flushdb after execute: Ok(()) whatever the reply
FlushDbFinish ==
    /\ pc = "executed"
    /\ op = "flushdb"
    /\ shaped' = IF result.st # "Ok" THEN result ELSE Returned("unit")
    /\ pc' = "done"
    /\ UNCHANGED <<value, tail, frame, wire, result, request, sent, builder,
                   op, other, io>>

NextSet ==
    \/ BuilderExpirationTime
    \/ BuilderSetMode
    \/ BuilderGetPreviousValue
    \/ SetCall
    \/ StoreReply
    \/ ExecuteParse
    \/ SetFinish

SpecSet == Init /\ [][NextSet]_vars

\* The four operations of the client
NextClient ==
    \/ BuilderExpirationTime
    \/ BuilderSetMode
    \/ BuilderGetPreviousValue
    \/ SetCall
    \/ GetCall
    \/ DelCall
    \/ FlushDbCall
    \/ StoreReply
    \/ ExecuteParse
    \/ SetFinish
    \/ GetFinish
    \/ DelFinish
    \/ FlushDbFinish

SpecClient == Init /\ [][NextClient]_vars

(***************************************************************************)
(* Conversions between DataType and ProtocolDataType (src/data_type.rs),   *)
(* alone and as Client::get applies them to a reply.                       *)
(***************************************************************************)
\* impl Into<ProtocolDataType> for DataType
into(d) ==
    IF d.t = "String" THEN BulkString(d.s)
    ELSE Array([i \in 1..Len(d.items) |-> BulkString(d.items[i])])

ItemTexts == {<<>>, <<"a">>, <<"a", ",", "b">>, <<"\"">>, <<WideChar>>}

DataTypes ==
    {String(s) : s \in ItemTexts}
    \cup UNION {{List(items) : items \in [1..n -> ItemTexts]} : n \in 0..MaxItems}

\* Protocol values handed to the conversion
ConvertValues ==
    ReplyValues
    \cup { Array(<<BulkError(<<"e">>)>>), Array(<<Array(<<Null>>)>>) }

\* A DataType built by the caller
ConstructDataType ==
    /\ pc = "idle"
    /\ \E d \in DataTypes : request' = d
    /\ frame' = [kind |-> "datatype"]
    /\ pc' = "data"
    /\ UNCHANGED <<value, tail, wire, result, sent, shaped, builder, op, other, io>>

\* let value: ProtocolDataType = d.into();
ConvertInto ==
    /\ pc = "data"
    /\ value' = into(request)
    /\ pc' = "protocol"
    /\ UNCHANGED <<tail, frame, wire, result, request, sent, shaped, builder,
                   op, other, io>>

\* A ProtocolDataType obtained elsewhere
ConstructValue ==
    /\ pc = "idle"
    /\ \E v \in ConvertValues : value' = v
    /\ frame' = [kind |-> "value"]
    /\ pc' = "protocol"
    /\ UNCHANGED <<tail, wire, result, request, sent, shaped, builder, op,
                   other, io>>

\* DataType::try_from(value)
ConvertTryFrom ==
    /\ pc = "protocol"
    /\ shaped' = try_from(value)
    /\ pc' = "converted"
    /\ UNCHANGED <<value, tail, frame, wire, result, request, sent, builder,
                   op, other, io>>

NextConvert ==
    \/ ConstructDataType
    \/ ConvertInto
    \/ ConstructValue
    \/ ConvertTryFrom
    \/ GetCall
    \/ StoreReply
    \/ ExecuteParse
    \/ GetFinish

SpecConvert == Init /\ [][NextConvert]_vars

(***************************************************************************)
(* Client::execute step by step on its TcpStream (src/client.rs).          *)
(* io.stream holds the bytes that have arrived and are not yet read,       *)
(* io.pending the segments the store has still to deliver, io.log the      *)
(* steps of the call in progress.                                          *)
(***************************************************************************)
CLIENT_RECEIVE_BUFFER_SIZE == 1024

\* std::io::Error propagated by `?`
IoError == <<"i", "o", " ", "e", "r", "r", "o", "r">>

Event(e, n) == [e |-> e, n |-> n]

\* A byte that is not valid UTF-8, and what from_utf8_lossy puts in its place
InvalidByte == "0xFF"
ReplacementChar == "U+FFFD"

\* String::from_utf8_lossy on a chunk of single bytes
from_utf8_lossy(bytes) ==
    [i \in 1..Len(bytes) |->
        IF bytes[i] = InvalidByte THEN ReplacementChar ELSE bytes[i]]

\* A simple-string reply of n bytes in all
LongReply(n) ==
    [i \in 1..n |-> IF i = 1 THEN "+"
                    ELSE IF i = n - 1 THEN CR
                    ELSE IF i = n THEN LF
                    ELSE "a"]

\* The ways the store's reply reaches the socket: in one segment or in two,
\* short, exactly one buffer long, or one byte longer than a buffer
ReplySegments ==
    { <<<<"+", "O", "K", CR, LF>>>>,
      <<<<"+", "O">>, <<"K", CR, LF>>>>,
      <<<<"-", "E", CR, LF>>>>,
      <<<<"+", InvalidByte, CR, LF>>>>,
      <<LongReply(CLIENT_RECEIVE_BUFFER_SIZE)>>,
      <<LongReply(CLIENT_RECEIVE_BUFFER_SIZE + 1)>> }

RECURSIVE Flatten(_)
Flatten(segments) ==
    IF segments = <<>> THEN <<>>
    ELSE Head(segments) \o Flatten(Tail(segments))

ExecuteCommands ==
    { Command_Get(GetArguments(<<"f", "o", "o">>)),
      Command_FlushDb(FlushDbArguments(TRUE)) }

\* let serialized_command = command.serialize();
ExecuteSerialize ==
    /\ pc = "idle"
    /\ io.calls < MaxCalls
    /\ \E command \in ExecuteCommands : sent' = Command_serialize(command)
    /\ io' = [io EXCEPT !.calls = @ + 1, !.written = <<>>, !.response = <<>>,
                        !.log = <<Event("serialize", 0)>>]
    /\ result' = NoResult
    /\ pc' = "serialized"
    /\ UNCHANGED <<value, tail, frame, wire, request, shaped, builder, op, other>>

\* self.stream.write_all(..) succeeds; the store will answer with a reply
\* delivered in some segments (with nothing if it has closed the connection)
ExecuteWrite ==
    /\ pc = "serialized"
    /\ ~io.broken
    /\ \E segments \in (IF io.closed THEN {<<>>} ELSE ReplySegments) :
          io' = [io EXCEPT !.writes = @ + 1, !.written = sent,
                           !.reply = Flatten(segments),
                           !.pending = @ \o segments,
                           !.log = Append(@, Event("write", Len(sent)))]
    /\ pc' = "reading"
    /\ UNCHANGED <<value, tail, frame, wire, result, request, sent, shaped,
                   builder, op, other>>

\* self.stream.write_all(..)? fails, possibly after part of the command went
\* out: execute returns the error
ExecuteWriteError ==
    /\ pc = "serialized"
    /\ io.broken
    /\ \E n \in {0, Len(sent) \div 2} :
          io' = [io EXCEPT !.written = Take(sent, n),
                           !.log = Append(@, Event("write_err", n))]
    /\ result' = [st |-> "Err", e |-> IoError]
    /\ pc' = "executed"
    /\ UNCHANGED <<value, tail, frame, wire, request, sent, shaped, builder,
                   op, other>>

\* A receive loop that breaks as soon as nothing more has arrived
ExecuteRead_until_drained ==
    /\ pc = "reading"
    /\ ~io.broken
    /\ io.stream # <<>> \/ io.closed
    /\ LET bytes_read == IF Len(io.stream) < CLIENT_RECEIVE_BUFFER_SIZE
                         THEN Len(io.stream) ELSE CLIENT_RECEIVE_BUFFER_SIZE
       IN  /\ io' = [io EXCEPT
                       !.response = @ \o from_utf8_lossy(Take(io.stream, bytes_read)),
                       !.stream = Drop(@, bytes_read),
                       !.log = Append(@, Event("read", bytes_read))]
           /\ pc' = IF Drop(io.stream, bytes_read) = <<>>
                    THEN "collected" ELSE "reading"
    /\ UNCHANGED <<value, tail, frame, wire, result, request, sent, shaped,
                   builder, op, other>>

\* One turn of the loop: a blocking read into a buffer of
\* CLIENT_RECEIVE_BUFFER_SIZE bytes returns what has arrived, at most a
\* buffer full, or 0 at end of stream; the loop breaks when fewer bytes than
\* a buffer full were read
ExecuteRead ==
    /\ pc = "reading"
    /\ ~io.broken
    /\ io.stream # <<>> \/ io.closed
    /\ LET bytes_read == IF Len(io.stream) < CLIENT_RECEIVE_BUFFER_SIZE
                         THEN Len(io.stream) ELSE CLIENT_RECEIVE_BUFFER_SIZE
       IN  /\ io' = [io EXCEPT
                       !.response = @ \o from_utf8_lossy(Take(io.stream, bytes_read)),
                       !.stream = Drop(@, bytes_read),
                       !.log = Append(@, Event("read", bytes_read))]
           /\ pc' = IF bytes_read < CLIENT_RECEIVE_BUFFER_SIZE
                    THEN "collected" ELSE "reading"
    /\ UNCHANGED <<value, tail, frame, wire, result, request, sent, shaped,
                   builder, op, other>>

\* A failed read answered by writing the command again
ExecuteReadError_retries ==
    /\ pc = "reading"
    /\ io.broken
    /\ io' = [io EXCEPT !.broken = FALSE,
                        !.log = Append(@, Event("read_err", 0))]
    /\ pc' = "serialized"
    /\ UNCHANGED <<value, tail, frame, wire, result, request, sent, shaped,
                   builder, op, other>>

\* self.stream.read(&mut buf)? fails: execute returns the error
ExecuteReadError ==
    /\ pc = "reading"
    /\ io.broken
    /\ io' = [io EXCEPT !.log = Append(@, Event("read_err", 0))]
    /\ result' = [st |-> "Err", e |-> IoError]
    /\ pc' = "executed"
    /\ UNCHANGED <<value, tail, frame, wire, request, sent, shaped, builder,
                   op, other>>

\* match response.parse::<ProtocolDataType>()? { .. }
ExecuteMatch ==
    /\ pc = "collected"
    /\ result' = execute_result(io.response)
    /\ io' = [io EXCEPT !.log = Append(@, Event("parse", 0))]
    /\ pc' = "executed"
    /\ UNCHANGED <<value, tail, frame, wire, request, sent, shaped, builder,
                   op, other>>

\* execute has returned to its caller
ExecuteReturn ==
    /\ pc = "executed"
    /\ io' = [io EXCEPT !.returned = @ + 1]
    /\ pc' = "idle"
    /\ UNCHANGED <<value, tail, frame, wire, result, request, sent, shaped,
                   builder, op, other>>

\* The store's next segment arrives at the socket
Deliver ==
    /\ io.pending # <<>>
    /\ ~io.broken
    /\ io' = [io EXCEPT !.stream = @ \o Head(io.pending),
                        !.pending = Tail(@)]
    /\ UNCHANGED <<pc, value, tail, frame, wire, result, request, sent, shaped,
                   builder, op, other>>

\* The store closes the connection after its last segment
Close ==
    /\ io.writes > 0
    /\ io.pending = <<>>
    /\ ~io.closed /\ ~io.broken
    /\ io' = [io EXCEPT !.closed = TRUE]
    /\ UNCHANGED <<pc, value, tail, frame, wire, result, request, sent, shaped,
                   builder, op, other>>

\* The connection breaks: every later write or read fails
Reset ==
    /\ pc \in {"serialized", "reading"}
    /\ ~io.broken
    /\ io' = [io EXCEPT !.broken = TRUE, !.pending = <<>>]
    /\ UNCHANGED <<pc, value, tail, frame, wire, result, request, sent, shaped,
                   builder, op, other>>

NextIo ==
    \/ ExecuteSerialize
    \/ ExecuteWrite
    \/ ExecuteWriteError
    \/ ExecuteRead
    \/ ExecuteReadError
    \/ ExecuteMatch
    \/ ExecuteReturn
    \/ Deliver
    \/ Close
    \/ Reset

SpecIo == Init /\ [][NextIo]_vars

(***************************************************************************)
(* Properties of the codec.                                                *)
(***************************************************************************)
Markers == {"$", "+", "-", ":", "*", "#", ",", "_", "(", "!"}

\* C1: round trip: parsing serialize(v) succeeds and returns a value equal
\* to v, for every constructible value v.
C1_RoundTrip ==
    (pc = "parsed" /\ frame.kind = "value" /\ tail = <<>>) =>
        (result.st = "Ok" /\ eq(result.v, value))

\* The number of leading characters of s that make up exactly n bytes,
\* -1 when no prefix of s is n bytes long
CharsOfBytes(s, n) ==
    IF \E k \in 0..Len(s) : ByteLen(Take(s, k)) = n
    THEN CHOOSE k \in 0..Len(s) : ByteLen(Take(s, k)) = n
    ELSE -1

\* C2: bulk framing: with a declared length n (0 included) the payload is
\* exactly the n bytes after the header's CRLF, whatever they contain, and
\* the parse is an error unless a CRLF follows the payload immediately.
C2_BulkFraming ==
    (pc = "parsed" /\ frame.kind = "bulk") =>
        LET k == CharsOfBytes(frame.rest, frame.n)
            bulk(s) == IF frame.marker = "$" THEN BulkString(s) ELSE BulkError(s)
        IN  IF k >= 0 /\ StartsWith(Drop(frame.rest, k), CRLF)
            THEN result = Ok(bulk(Take(frame.rest, k)), Drop(frame.rest, k + 2))
            ELSE result.st = "Err"

\* C3: array parsing: a header declaring n elements followed by element
\* encodings yields the Array of exactly the first n elements, in order,
\* each parsed by its own grammar (nested arrays by their own counts); the
\* encodings after the n-th are left unconsumed; fewer than n is an error;
\* n = 0 yields the empty Array.
C3_ArrayParsing ==
    (pc = "parsed" /\ frame.kind = "array") =>
        LET n == frame.n
            es == frame.es
        IN  IF Len(es) >= n
            THEN result = Ok(Array([i \in 1..n |-> Entries[es[i]].v]),
                             EntryBytes(SubSeq(es, n + 1, Len(es))))
            ELSE result.st = "Err"

\* A nested array is the second of two declared elements and a third
\* encoding follows: the inner count delimits the inner array, and the
\* third encoding is left unconsumed.
C3_Witness ==
    /\ pc = "parsed" /\ frame.kind = "array"
    /\ frame.n = 2 /\ frame.es = <<3, 7, 1>>
    /\ result.st = "Ok" /\ Len(result.v.a) = 2
    /\ result.v.a[2] = Array(<<I64(FALSE, <<"1">>), Boolean(TRUE)>>)
    /\ result.rest = <<":", "1", CR, LF>>

\* The grammar the leading byte selects
Selected(input) ==
    IF input = <<>> THEN Error
    ELSE CASE Head(input) = "$" -> bulk_string(input)
           [] Head(input) = "+" -> simple_string(input)
           [] Head(input) = "-" -> simple_error(input)
           [] Head(input) = ":" -> integer(input)
           [] Head(input) = "*" -> array(input)
           [] Head(input) = "#" -> boolean(input)
           [] Head(input) = "," -> double(input)
           [] Head(input) = "_" -> null(input)
           [] Head(input) = "(" -> big_number(input)
           [] Head(input) = "!" -> bulk_error(input)
           [] OTHER -> Error

VariantsOf(c) ==
    CASE c = "$" -> {"BulkString", "Null"}
      [] c = "+" -> {"SimpleString"}
      [] c = "-" -> {"SimpleError"}
      [] c = ":" -> {"Integer"}
      [] c = "*" -> {"Array"}
      [] c = "#" -> {"Boolean"}
      [] c = "," -> {"Double"}
      [] c = "_" -> {"Null"}
      [] c = "(" -> {"BigNumber"}
      [] c = "!" -> {"BulkError"}
      [] OTHER -> {}

\* C4: dispatch on the leading byte: the outcome of the entry point is the
\* outcome of the one grammar the first byte selects, the variant of a
\* successful result is the one that byte stands for, and an empty input or
\* an input with any other first byte is an error.
C4_Dispatch ==
    pc = "parsed" =>
        /\ result = Selected(wire)
        /\ result.st = "Ok" => result.v.t \in VariantsOf(Head(wire))
        /\ (wire = <<>> \/ Head(wire) \notin Markers) => result.st = "Err"

\* An input whose first byte is no marker has been rejected.
C4_Witness ==
    /\ pc = "parsed" /\ frame.kind = "other"
    /\ wire = <<"x", CR, LF>>
    /\ result.st = "Err"

ValidNumber(marker, body) ==
    CASE marker = ":" -> ParseI64(body).ok
      [] marker = "(" -> ParseBigInt(body).ok
      [] marker = "," -> ParseF64(body).ok

\* C5: malformed numeric token: when the body of an integer, big integer
\* or double frame up to the CRLF is not a valid number of that type, parse
\* returns an error result (it does not abort, it returns no value).
C5_MalformedNumber ==
    ( /\ pc = "parsed" /\ frame.kind = "number" /\ frame.term = CRLF
      /\ ~ValidNumber(frame.marker, frame.body) ) =>
        result.st = "Err"

IllFormedHeader(f) ==
    /\ ~(f.marker = "$" /\ f.hdr = <<"-", "1">> /\ StartsWith(f.after, CRLF))
    /\ \/ ~FromStrUnsigned(f.hdr, IF f.marker = "*" THEN UsizeMax ELSE U32Max, 0).ok
       \/ ~StartsWith(f.after, CRLF)

\* C6: truncated or ill-formed framing is a decode failure: a bulk string,
\* bulk error or array header that is truncated or has no valid length or
\* count gives an error result, and parse aborts on no input at all.
C6_TruncatedFraming ==
    pc = "parsed" =>
        /\ result.st # "Panic"
        /\ (frame.kind = "header" /\ IllFormedHeader(frame)) => result.st = "Err"

\* C7: exactly one value is consumed: parsing serialize(v) followed by t
\* returns v and leaves exactly t unconsumed.
C7_ExactlyOneValue ==
    (pc = "parsed" /\ frame.kind = "value") =>
        (result.st = "Ok" /\ eq(result.v, value) /\ result.rest = tail)

(***************************************************************************)
(* Properties of the response shaping of SET.                              *)
(***************************************************************************)
\* C8: response shaping, step 1: when the request asked for the previous
\* value, whatever its other options, a Null response gives
\* PreviousValue(None) and every other response gives
\* PreviousValue(Some(converted value)); never Aborted, never Ok.
C8_PreviousValue ==
    (pc = "done" /\ result.st = "Ok" /\ request.options.get_previous_value) =>
        /\ shaped.st = "Ok"
        /\ shaped.r.k = "PreviousValue"
        /\ shaped.r.v.some <=> result.v.t # "Null"
        /\ shaped.r.v.some => try_from(result.v) = Converted(shaped.r.v.v)

\* C9: response shaping, step 2: Aborted is returned exactly when the
\* request did not ask for the previous value, named a conditional mode,
\* and the response is Null.
C9_Aborted ==
    pc = "done" =>
        ( shaped = Returned(SetResponse_Aborted)
          <=> ( /\ result.st = "Ok"
                /\ ~request.options.get_previous_value
                /\ request.options.set_mode.some
                /\ result.v.t = "Null" ) )

\* SET key value NX answered with Null has been shaped to Aborted.
C9_Witness ==
    /\ pc = "done"
    /\ request.options.set_mode = Some("SetIfNotExists")
    /\ ~request.options.get_previous_value
    /\ result.st = "Ok" /\ result.v = Null
    /\ shaped = Returned(SetResponse_Aborted)

\* C10: response shaping, steps 3 and 4: when the previous value was not
\* asked for and step 2 does not apply, the result is Ok exactly for the
\* SimpleString "OK"; every other response is fatal and yields no
\* SetResponse.
C10_OkOrFatal ==
    ( /\ pc = "done" /\ result.st = "Ok"
      /\ ~request.options.get_previous_value
      /\ ~(request.options.set_mode.some /\ result.v.t = "Null") ) =>
        IF result.v = SimpleString(<<"O", "K">>)
        THEN shaped = Returned(SetResponse_Ok)
        ELSE shaped = Panic

\* A BulkString "OK" answering a plain SET has been fatal.
C10_Witness ==
    /\ pc = "done"
    /\ ~request.options.get_previous_value /\ ~request.options.set_mode.some
    /\ result.st = "Ok" /\ result.v = BulkString(<<"O", "K">>)
    /\ shaped = Panic

(***************************************************************************)
(* Properties of the SET arguments.                                        *)
(***************************************************************************)
ModeCount(o) == IF o.set_mode.some THEN 1 ELSE 0
GetCount(o) == IF o.get_previous_value THEN 1 ELSE 0

NumberedExpiry ==
    [Seconds |-> <<"E", "X">>, Milliseconds |-> <<"P", "X">>,
     TimestampSeconds |-> <<"E", "X", "A", "T">>,
     TimestampMilliseconds |-> <<"P", "X", "A", "T">>]

\* key, value, then the mode token if any, then GET if asked for
FixedPrefix(args, o) ==
    /\ \A i \in 1..Len(args) : args[i].t = "BulkString"
    /\ Len(args) >= 2 + ModeCount(o) + GetCount(o)
    /\ args[1].s = <<"f", "o", "o">>
    /\ args[2].s = request.value
    /\ o.set_mode.some =>
          args[3].s = (IF o.set_mode.v = "SetIfExists" THEN <<"X", "X">>
                       ELSE <<"N", "X">>)
    /\ o.get_previous_value => args[3 + ModeCount(o)].s = <<"G", "E", "T">>

\* after the prefix: nothing without an expiration, else the token of
\* EX/PX/EXAT/PXAT and its number
NumberedSuffix(args, o) ==
    LET at == 2 + ModeCount(o) + GetCount(o)
        e == o.expiration_time
    IN  IF ~e.some THEN Len(args) = at
        ELSE /\ Len(args) = at + 2
             /\ e.v.k \in DOMAIN NumberedExpiry
             /\ args[at + 1].s = NumberedExpiry[e.v.k]
             /\ args[at + 2].s = DecimalOf(e.v.n)

\* C11 as stated: for every SetOptions value the arguments are key, value,
\* the conditional-mode token if present, GET if asked for, then the expiry
\* token and its number (EX/PX/EXAT/PXAT n) if an expiration is present.
C11_OptionOrder_AsStated ==
    (op = "set" /\ pc = "sent") =>
        LET args == argument_list(Command_Set(request))
        IN  FixedPrefix(args, request.options)
            /\ NumberedSuffix(args, request.options)

\* C11 (amended): key, value, the conditional-mode token if present, GET if
\* asked for, then for an expiration either the expiry token and its number
\* (EX/PX/EXAT/PXAT n) or the single token KEEPTTL; the order is a function
\* of the option values, whatever the order of the builder's setter calls.
C11_OptionOrder ==
    (op = "set" /\ pc = "sent") =>
        LET args == argument_list(Command_Set(request))
            o == request.options
            at == 2 + ModeCount(o) + GetCount(o)
        IN  /\ FixedPrefix(args, o)
            /\ IF o.expiration_time.some /\ o.expiration_time.v.k = "KeepTTL"
               THEN /\ Len(args) = at + 1
                    /\ args[at + 1].s = <<"K", "E", "E", "P", "T", "T", "L">>
               ELSE NumberedSuffix(args, o)
            /\ sent = serialize(Array(<<BulkString(<<"S", "E", "T">>)>> \o args))

\* Expiry, GET and mode set on the builder in that order have produced
\* foo bar NX GET EX 10.
C11_Witness ==
    /\ op = "set" /\ pc = "sent"
    /\ builder.calls = <<"expiration_time", "get_previous_value", "set_mode">>
    /\ argument_list(Command_Set(request))
         = <<BulkString(<<"f", "o", "o">>), BulkString(<<"b", "a", "r">>),
             BulkString(<<"N", "X">>), BulkString(<<"G", "E", "T">>),
             BulkString(<<"E", "X">>), BulkString(<<"1", "0">>)>>

(***************************************************************************)
(* Properties of Client::execute and the four operations.                  *)
(***************************************************************************)
\* The reply decodes to a top-level SimpleError or BulkError
IsErrorReply(w) ==
    LET r == from_str(w)
    IN  r.st = "Ok" /\ r.v.t \in {"SimpleError", "BulkError"}

\* C12: whenever the parsed reply is a top-level SimpleError or BulkError,
\* execute returns Err carrying the error text, and set, get, del and
\* flushdb hand that Err to the caller without shaping the reply.
C12_ProtocolErrors ==
    (pc = "done" /\ IsErrorReply(wire)) =>
        /\ result = [st |-> "Err", e |-> from_str(wire).v.s]
        /\ shaped = result

\* DEL answered with the bulk error "e" has returned Err("e").
C12_Witness ==
    /\ pc = "done" /\ op = "del"
    /\ wire = <<"!", "1", CR, LF, "e", CR, LF>>
    /\ shaped = [st |-> "Err", e |-> <<"e">>]

\* C13: the Err that execute returns for a reply that is a SimpleError or
\* BulkError value differs from the Err it returns for every reply that
\* fails to parse.
C13_DecodeFailureDistinct ==
    (pc = "executed" /\ IsErrorReply(wire)) =>
        \A w \in Replies :
            from_str(w).st = "Err" => execute_result(w) # result

(***************************************************************************)
(* Properties of equality.                                                 *)
(***************************************************************************)
IsZero(d) == d.k = "num" /\ d.ip = <<"0">> /\ d.fp = <<>>

\* Numerical equality of two non-NaN f64 values (-0.0 equals 0.0)
NumericallyEqual(x, y) == x = y \/ (IsZero(x) /\ IsZero(y))

\* C14: Double(NaN) equals Double(NaN), a NaN Double never equals a non-NaN
\* Double, and two non-NaN Doubles are equal exactly when they are
\* numerically equal.
C14_DoubleEquality ==
    (pc = "compared" /\ value.t = "Double" /\ other.t = "Double") =>
        ( result.equal
          <=> IF is_nan(value.d) \/ is_nan(other.d)
              THEN is_nan(value.d) /\ is_nan(other.d)
              ELSE NumericallyEqual(value.d, other.d) )

RECURSIVE HasDouble(_)
HasDouble(v) ==
    \/ v.t = "Double"
    \/ v.t = "Array" /\ \E i \in 1..Len(v.a) : HasDouble(v.a[i])

\* C15: two Arrays are equal if and only if they have the same length and
\* their elements are pairwise equal at every index, in order (for elements
\* free of doubles: the same elements in the same order); values of
\* different variants are never equal.
C15_ArrayEquality ==
    pc = "compared" =>
        /\ (value.t = "Array" /\ other.t = "Array") =>
              /\ result.equal
                 <=> ( /\ Len(value.a) = Len(other.a)
                       /\ \A i \in 1..Len(value.a) : eq(value.a[i], other.a[i]) )
              /\ (~HasDouble(value) /\ ~HasDouble(other)) =>
                    (result.equal <=> value.a = other.a)
        /\ value.t # other.t => ~result.equal

\* [Null, 42] has been compared with [42, Null] and found different.
C15_Witness ==
    /\ pc = "compared"
    /\ value = Array(<<Null, I64(FALSE, <<"4", "2">>)>>)
    /\ other = Array(<<I64(FALSE, <<"4", "2">>), Null>>)
    /\ ~result.equal

(***************************************************************************)
(* Properties of serialization.                                            *)
(***************************************************************************)
RECURSIVE InOrder(_)
InOrder(ss) == IF ss = <<>> THEN <<>> ELSE Head(ss) \o InOrder(Tail(ss))

\* The array rule applied at every depth: `*`, the number of direct
\* elements, CRLF, the elements' bytes in order; other values as serialized
RECURSIVE ArrayRule(_)
ArrayRule(v) ==
    IF v.t = "Array" /\ v.a # <<>>
    THEN <<"*">> \o DecimalOf(Len(v.a)) \o CRLF
         \o InOrder([i \in 1..Len(v.a) |-> ArrayRule(v.a[i])])
    ELSE serialize(v)

\* C16: for every non-empty Array of n elements, serialize emits `*`, the
\* decimal n, CRLF, then the serializations of the elements in element
\* order with nothing between or after them; n counts the direct elements
\* only, and nested arrays follow the same rule.
C16_ArraySerialization ==
    (pc = "wire" /\ frame.kind = "value" /\ value.t = "Array" /\ value.a # <<>>) =>
        wire = ArrayRule(value) \o tail

\* [7, [Foo, 42, true]] has been serialized with count 2 and the inner
\* array with count 3.
C16_Witness ==
    /\ pc = "wire" /\ frame.kind = "value" /\ tail = <<>>
    /\ value = Array(<<I64(FALSE, <<"7">>),
                       Array(<<BulkString(<<"F", "o", "o">>),
                               I64(FALSE, <<"4", "2">>), Boolean(TRUE)>>)>>)
    /\ wire = <<"*", "2", CR, LF, ":", "7", CR, LF,
                "*", "3", CR, LF, "$", "3", CR, LF, "F", "o", "o", CR, LF,
                ":", "4", "2", CR, LF, "#", "t", CR, LF>>

\* C17: serialize(BulkString("")) is exactly `$0\r\n` and
\* serialize(Array([])) is exactly `*0\r\n`, with no following bytes, and
\* parsing each of these strings returns the empty BulkString and the empty
\* Array respectively.
C17_EmptyForms ==
    /\ (pc \in {"wire", "parsed"} /\ frame.kind = "value") =>
          /\ value = BulkString(<<>>) => wire = <<"$", "0", CR, LF>> \o tail
          /\ value = Array(<<>>) => wire = <<"*", "0", CR, LF>> \o tail
    /\ pc = "parsed" =>
          /\ wire = <<"$", "0", CR, LF>> => result = Ok(BulkString(<<>>), <<>>)
          /\ wire = <<"*", "0", CR, LF>> => result = Ok(Array(<<>>), <<>>)

\* The empty BulkString has been serialized to `$0\r\n` and parsed back.
C17_Witness ==
    /\ pc = "parsed" /\ frame.kind = "value" /\ tail = <<>>
    /\ value = BulkString(<<>>)
    /\ wire = <<"$", "0", CR, LF>>
    /\ result = Ok(BulkString(<<>>), <<>>)

(***************************************************************************)
(* Properties of the numeric replies.                                      *)
(***************************************************************************)
Unsigned(b) == IF b # <<>> /\ Head(b) \in {"+", "-"} THEN Tail(b) ELSE b

\* An optional + or - followed by one or more decimal digits
SignedDecimal(b) ==
    /\ Unsigned(b) # <<>>
    /\ \A i \in 1..Len(Unsigned(b)) : Unsigned(b)[i] \in Digit

\* The signed value such a body denotes
SignedValue(b) ==
    LET mag == StripZeros(Unsigned(b))
    IN  Num(Head(b) = "-" /\ mag # <<"0">>, mag)

FitsI64(n) == MagLeq(n.mag, IF n.neg THEN I64MinMag ELSE I64Max)

\* C18: `:k`, `:+k` and `:-k` followed by CRLF parse to the Integer of that
\* signed value for every value in the 64-bit range, and a big-integer body
\* with an optional leading + or - parses to the BigNumber of that signed
\* value, whatever its magnitude.
C18_SignedIntegers ==
    ( /\ pc = "parsed" /\ frame.kind = "number" /\ frame.term = CRLF
      /\ SignedDecimal(frame.body) ) =>
        /\ (frame.marker = ":" /\ FitsI64(SignedValue(frame.body))) =>
              result = Ok(Integer(SignedValue(frame.body)), <<>>)
        /\ frame.marker = "(" =>
              result = Ok(BigNumber(SignedValue(frame.body)), <<>>)

\* `:+12\r\n` has been parsed to Integer(12).
C18_Witness ==
    /\ pc = "parsed" /\ frame.kind = "number"
    /\ wire = <<":", "+", "1", "2", CR, LF>>
    /\ result = Ok(I64(FALSE, <<"1", "2">>), <<>>)

SpecialDoubles ==
    [inf |-> [v |-> Double(Inf(FALSE)), w |-> <<",", "i", "n", "f", CR, LF>>],
     ninf |-> [v |-> Double(Inf(TRUE)), w |-> <<",", "-", "i", "n", "f", CR, LF>>],
     nan |-> [v |-> Double(NaN), w |-> <<",", "n", "a", "n", CR, LF>>]]

\* C19: `,inf\r\n` parses to Double(+infinity), `,-inf\r\n` to
\* Double(-infinity) and `,nan\r\n` to Double(NaN); serialize emits exactly
\* these tokens for the three special values, which therefore round-trip.
C19_DoubleLiterals ==
    \A k \in DOMAIN SpecialDoubles :
        LET special == SpecialDoubles[k]
        IN  /\ (pc = "parsed" /\ wire = special.w) =>
                  result = Ok(special.v, <<>>)
            /\ (pc \in {"wire", "parsed"} /\ frame.kind = "value"
                    /\ value = special.v) =>
                  wire = special.w \o tail
            /\ (pc = "parsed" /\ frame.kind = "value" /\ value = special.v) =>
                  result = Ok(special.v, tail)

\* Double(-infinity) has been serialized to `,-inf\r\n` and parsed back.
C19_Witness ==
    /\ pc = "parsed" /\ frame.kind = "value" /\ tail = <<>>
    /\ value = Double(Inf(TRUE))
    /\ wire = <<",", "-", "i", "n", "f", CR, LF>>
    /\ result = Ok(Double(Inf(TRUE)), <<>>)

(***************************************************************************)
(* Properties of Client::get.                                              *)
(***************************************************************************)
NullReplies == { <<"_", CR, LF>>, <<"$", "-", "1", CR, LF>> }

\* C20: Client::get returns None exactly when the store's reply is a null
\* (`_\r\n` or `$-1\r\n`, both parsed to Null), and Some(DataType) holding
\* the converted value for every other non-error reply; a bulk string
\* reply yields DataType::String with the same text.
C20_Get ==
    (pc = "done" /\ op = "get") =>
        /\ wire \in NullReplies =>
              (result = [st |-> "Ok", v |-> Null] /\ shaped = Returned(None))
        /\ (result.st = "Ok" /\ wire \notin NullReplies) =>
              /\ shaped.st = "Ok"
              /\ shaped.r.some
              /\ try_from(result.v) = Converted(shaped.r.v)
              /\ result.v.t = "BulkString" => shaped.r.v = String(result.v.s)

(***************************************************************************)
(* Properties of the outbound commands.                                    *)
(***************************************************************************)
\* The Command built by the operation in progress
CommandOf ==
    CASE op = "set" -> Command_Set(request)
      [] op = "get" -> Command_Get(request)
      [] op = "del" -> Command_Del(request)
      [] op = "flushdb" -> Command_FlushDb(request)

NameToken ==
    CASE op = "set" -> <<"S", "E", "T">>
      [] op = "get" -> <<"G", "E", "T">>
      [] op = "del" -> <<"D", "E", "L">>
      [] op = "flushdb" -> <<"F", "L", "U", "S", "H", "D", "B">>

\* C21: for every command, Command::serialize emits one Array whose first
\* element is the BulkString command-name token and whose remaining elements
\* are exactly the tokens of to_protocol_arguments in the same order: the
\* count is 1 + the number of argument tokens and every element is a
\* BulkString.
C21_CommandFraming ==
    pc = "sent" =>
        LET args == argument_list(CommandOf)
            name == BulkString(NameToken)
        IN  /\ \A i \in 1..Len(args) : args[i].t = "BulkString"
            /\ sent = <<"*">> \o DecimalOf(1 + Len(args)) \o CRLF
                      \o serialize(name)
                      \o InOrder([i \in 1..Len(args) |-> serialize(args[i])])
            /\ from_str(sent) = [st |-> "Ok", v |-> Array(<<name>> \o args)]

\* FLUSHDB ASYNC has been written as an array of two bulk strings.
C21_Witness ==
    /\ pc = "sent" /\ op = "flushdb"
    /\ sent = <<"*", "2", CR, LF,
                "$", "7", CR, LF, "F", "L", "U", "S", "H", "D", "B", CR, LF,
                "$", "5", CR, LF, "A", "S", "Y", "N", "C", CR, LF>>

\* C22: DelArguments::to_protocol_arguments returns one BulkString per key,
\* in the caller's order, duplicates and empty keys preserved, and nothing
\* else; FlushDbArguments::to_protocol_arguments returns exactly one token,
\* ASYNC when async_flush is true and SYNC otherwise.
C22_DelFlushDbArguments ==
    pc = "sent" =>
        LET args == argument_list(CommandOf)
        IN  /\ op = "del" =>
                  /\ Len(args) = Len(request.keys)
                  /\ \A i \in 1..Len(request.keys) :
                        args[i] = BulkString(request.keys[i])
            /\ op = "flushdb" =>
                  args = <<BulkString(IF request.async_flush
                                      THEN <<"A", "S", "Y", "N", "C">>
                                      ELSE <<"S", "Y", "N", "C">>)>>

\* DEL foo "" foo has produced three tokens, the empty and the repeated key
\* included.
C22_Witness ==
    /\ pc = "sent" /\ op = "del"
    /\ request.keys = <<<<"f", "o", "o">>, <<>>, <<"f", "o", "o">>>>
    /\ argument_list(CommandOf)
         = <<BulkString(<<"f", "o", "o">>), BulkString(<<>>),
             BulkString(<<"f", "o", "o">>)>>

\* `$`, the decimal byte length, CRLF, the bytes, CRLF
LengthPrefixed(text) ==
    <<"$">> \o DecimalOf(ByteLen(text)) \o CRLF \o text \o CRLF

\* `$0` CRLF for the empty string, the length-prefixed form otherwise
BulkToken(text) ==
    IF text = <<>> THEN <<"$", "0">> \o CRLF ELSE LengthPrefixed(text)

\* C23 (amended): the bytes written for every non-empty key, value and flag
\* token s of every command are `$`, the decimal length of s, CRLF, the
\* bytes of s, CRLF; the empty string is written as `$0` CRLF alone.
C23_BulkTokens ==
    pc = "sent" =>
        LET args == argument_list(CommandOf)
            tokens == <<NameToken>> \o [i \in 1..Len(args) |-> args[i].s]
        IN  sent = <<"*">> \o DecimalOf(Len(tokens)) \o CRLF
                   \o InOrder([i \in 1..Len(tokens) |-> BulkToken(tokens[i])])

\* set(foo, "") has been written: the value token is `$0` CRLF and the
\* command ends there.
C23_Witness ==
    /\ pc = "sent" /\ op = "set"
    /\ request.value = <<>>
    /\ sent = <<"*", "3", CR, LF, "$", "3", CR, LF, "S", "E", "T", CR, LF,
                "$", "3", CR, LF, "f", "o", "o", CR, LF, "$", "0", CR, LF>>

\* C23 (as stated): the bytes written for every key, value and flag token s
\* of every command, the empty string included, are `$`, the decimal length
\* of s, CRLF, the bytes of s, CRLF.
C23_BulkTokens_AsStated ==
    pc = "sent" =>
        LET args == argument_list(CommandOf)
            tokens == <<NameToken>> \o [i \in 1..Len(args) |-> args[i].s]
        IN  sent = <<"*">> \o DecimalOf(Len(tokens)) \o CRLF
                   \o InOrder([i \in 1..Len(tokens) |-> LengthPrefixed(tokens[i])])

(***************************************************************************)
(* Properties of Client::execute on its connection.                        *)
(***************************************************************************)
\* serialize, then a write, then reads, then parse; a failed write or read
\* is the last step
Sequential(log) ==
    log # <<>> =>
        /\ log[1].e = "serialize"
        /\ \A i \in 2..Len(log) :
              /\ log[i].e # "serialize"
              /\ log[i].e \in {"write", "write_err"} => i = 2
              /\ log[i].e \in {"read", "read_err", "parse"} =>
                    /\ log[2].e = "write"
                    /\ \A j \in 3..(i - 1) : log[j].e = "read"
              /\ log[i].e = "parse" => i >= 4
              /\ log[i].e \in {"write_err", "read_err", "parse"} => i = Len(log)

LastEvent(log) == IF log = <<>> THEN "none" ELSE log[Len(log)].e

\* C24: within one Client::execute call the steps are serialize, one write
\* of the whole command, one or more reads, parse, in that order; a read
\* comes only after the write, the command is written exactly once, a call
\* starts only when the previous one has returned, and a failed write or
\* read is the call's last step, with that error as execute's result.
C24_SequentialExecute ==
    /\ Sequential(io.log)
    /\ (\E i \in 1..Len(io.log) : io.log[i].e = "write") => io.written = sent
    /\ io.writes <= io.calls
    /\ io.calls - io.returned = (IF pc = "idle" THEN 0 ELSE 1)
    /\ LastEvent(io.log) \in {"write_err", "read_err"} =>
          /\ pc \in {"executed", "idle"}
          /\ result = [st |-> "Err", e |-> IoError]
    /\ LastEvent(io.log) = "parse" =>
          /\ pc \in {"executed", "idle"}
          /\ result = execute_result(io.response)

\* A reply one byte longer than the buffer: the first read filled the
\* buffer, the connection broke, the second read failed and execute
\* returned the error without parsing.
C24_Witness ==
    /\ pc = "executed"
    /\ io.log = <<Event("serialize", 0), Event("write", Len(sent)),
                  Event("read", CLIENT_RECEIVE_BUFFER_SIZE),
                  Event("read_err", 0)>>
    /\ result = [st |-> "Err", e |-> IoError]

\* The positions of the reads in the log of the call in progress
Reads(log) == {i \in 1..Len(log) : log[i].e = "read"}

RECURSIVE TotalRead(_)
TotalRead(log) ==
    IF log = <<>> THEN 0
    ELSE (IF Head(log).e = "read" THEN Head(log).n ELSE 0) + TotalRead(Tail(log))

\* The steps of execute itself, as opposed to those of the store
ExecuteStep ==
    \/ ExecuteRead
    \/ ExecuteReadError
    \/ ExecuteMatch
    \/ ExecuteReturn

\* C25: Client::execute reads chunks of at most 1024 bytes, goes on after
\* every read of exactly 1024 bytes and stops at the first read of fewer
\* (0 at end of stream included), then parses what it has accumulated.
\* Hence after reading the whole of a reply whose length is a multiple of
\* 1024 it is still in the loop, can take no step until more bytes or the
\* end of the stream arrive (or the connection fails), and has made one
\* more read by the time it parses; and when the first read returns only a
\* beginning of the reply, the parse is of that beginning alone.
C25_ReceiveLoop ==
    LET log == io.log
        reads == Reads(log)
        last == IF reads = {} THEN 0
                ELSE CHOOSE i \in reads : \A j \in reads : j <= i
        exact == /\ io.reply # <<>>
                 /\ Len(io.reply) % CLIENT_RECEIVE_BUFFER_SIZE = 0
                 /\ io.response = from_utf8_lossy(io.reply)
    IN  /\ \A i \in reads :
              /\ log[i].n <= CLIENT_RECEIVE_BUFFER_SIZE
              /\ i # last => log[i].n = CLIENT_RECEIVE_BUFFER_SIZE
        /\ Len(io.response) = TotalRead(log)
        /\ (pc = "reading" /\ reads # {}) =>
              log[last].n = CLIENT_RECEIVE_BUFFER_SIZE
        /\ (pc = "collected" \/ LastEvent(log) = "parse") =>
              /\ reads # {}
              /\ log[last].n < CLIENT_RECEIVE_BUFFER_SIZE
        /\ LastEvent(log) = "parse" => result = execute_result(io.response)
        /\ (pc = "reading" /\ io.stream = <<>> /\ ~io.closed /\ ~io.broken) =>
              ~ENABLED ExecuteStep
        /\ (exact /\ LastEvent(log) = "read"
                  /\ log[last].n = CLIENT_RECEIVE_BUFFER_SIZE) =>
              /\ pc = "reading"
              /\ result = NoResult
        /\ (exact /\ LastEvent(log) = "parse") =>
              /\ Cardinality(reads) = Len(io.reply) \div CLIENT_RECEIVE_BUFFER_SIZE + 1
              /\ log[last].n = 0
        /\ (/\ io.calls = 1 /\ LastEvent(log) = "parse"
            /\ log[3].n < CLIENT_RECEIVE_BUFFER_SIZE) =>
              /\ io.response = from_utf8_lossy(Take(io.reply, log[3].n))
              /\ result = execute_result(from_utf8_lossy(Take(io.reply, log[3].n)))

\* The whole of a 1024-byte reply has been read in one read, nothing more
\* has arrived, the connection is open, and execute is still in its loop.
C25_Witness ==
    /\ pc = "reading"
    /\ io.reply = LongReply(CLIENT_RECEIVE_BUFFER_SIZE)
    /\ io.response = io.reply
    /\ io.log = <<Event("serialize", 0), Event("write", Len(sent)),
                  Event("read", CLIENT_RECEIVE_BUFFER_SIZE)>>
    /\ io.stream = <<>> /\ io.pending = <<>>
    /\ ~io.closed /\ ~io.broken
    /\ ~ENABLED ExecuteStep

(***************************************************************************)
(* Properties of the codec: multi-byte payloads and signed doubles.        *)
(***************************************************************************)
\* C26: a non-empty BulkString or BulkError payload is serialized with its
\* length in bytes as the declared length, and the serialized text parses
\* back to the same payload, characters of more than one byte included.
C26_ByteLengths ==
    (/\ pc = "parsed" /\ frame.kind = "value" /\ tail = <<>>
     /\ value.t \in {"BulkString", "BulkError"} /\ value.s # <<>>) =>
        /\ wire = <<IF value.t = "BulkString" THEN "$" ELSE "!">>
                  \o DecimalOf(ByteLen(value.s)) \o CRLF \o value.s \o CRLF
        /\ result.st = "Ok"
        /\ result.v = value

\* C27: two non-NaN Doubles that differ numerically are not equal, nor are
\* two arrays with such a pair at the same position; the text serialized
\* for a non-NaN Double, and the token `,+3` CRLF, parse to a value equal
\* to exactly the Doubles of that number.
C27_DistinctDoubles ==
    pc = "compared" =>
        LET differ(x, y) ==
                /\ x.t = "Double" /\ y.t = "Double"
                /\ ~is_nan(x.d) /\ ~is_nan(y.d)
                /\ ~NumericallyEqual(x.d, y.d)
            plus_three == from_str(<<",", "+", "3", CR, LF>>)
        IN  /\ differ(value, other) => ~result.equal
            /\ (/\ value.t = "Array" /\ other.t = "Array"
                /\ Len(value.a) = Len(other.a)
                /\ \E i \in 1..Len(value.a) : differ(value.a[i], other.a[i])) =>
                  ~result.equal
            /\ (/\ value.t = "Double" /\ other.t = "Double"
                /\ ~is_nan(value.d) /\ ~is_nan(other.d)) =>
                  LET parsed == from_str(serialize(value))
                  IN  /\ parsed.st = "Ok"
                      /\ eq(parsed.v, other) <=> NumericallyEqual(value.d, other.d)
                      /\ plus_three.st = "Ok"
                      /\ eq(plus_three.v, other)
                         <=> NumericallyEqual(Fin(FALSE, <<"3">>, <<>>), other.d)

(***************************************************************************)
(* Properties of the conversions to and from DataType.                     *)
(***************************************************************************)
\* C28: converting a DataType to a ProtocolDataType gives a BulkString for
\* a String and an Array of BulkStrings for a List, and converting that
\* back with try_from gives Ok of the DataType started from, list items
\* with exactly their original text.
C28_ConversionRoundTrip ==
    (pc = "converted" /\ frame.kind = "datatype") =>
        /\ request.t = "String" => value = BulkString(request.s)
        /\ request.t = "List" =>
              /\ value.t = "Array"
              /\ Len(value.a) = Len(request.items)
              /\ \A i \in 1..Len(value.a) : value.a[i] = BulkString(request.items[i])
        /\ shaped = Converted(request)

\* A value DataType has no representation for: a Null or an error, or an
\* Array holding one at any depth
RECURSIVE Unrepresentable(_)
Unrepresentable(v) ==
    \/ v.t \in {"Null", "SimpleError", "BulkError"}
    \/ v.t = "Array" /\ \E i \in 1..Len(v.a) : Unrepresentable(v.a[i])

\* C29: try_from returns Ok or Err for every ProtocolDataType value and
\* never panics; it returns Err for Null, SimpleError and BulkError and for
\* an Array holding one of them at any depth, so Client::get on an array
\* reply with such an element returns an error.
C29_TotalConversion ==
    /\ pc = "converted" =>
          /\ shaped.st \in {"Ok", "Err"}
          /\ Unrepresentable(value) => shaped.st = "Err"
    /\ (/\ pc = "done" /\ op = "get" /\ result.st = "Ok"
        /\ result.v.t = "Array" /\ Unrepresentable(result.v)) =>
          shaped.st = "Err"

(***************************************************************************)
(* Properties of Client::del.                                              *)
(***************************************************************************)
\* C30: for an Integer(n) reply with 0 <= n < 2^32 Client::del returns n;
\* whenever it returns a count for an Integer(n) reply that count is n; and
\* a non-error reply that is not an Integer is fatal, not a returned value.
C30_DelCount ==
    (pc = "done" /\ op = "del" /\ result.st = "Ok") =>
        IF result.v.t = "Integer"
        THEN LET n == result.v.n
             IN  /\ (~n.neg /\ MagLeq(n.mag, U32Max)) => shaped = Returned(n.mag)
                 /\ shaped.st = "Ok" =>
                       /\ shaped.r = n.mag
                       /\ ~n.neg \/ n.mag = <<"0">>
        ELSE shaped.st = "Panic"
====
